---- MODULE Spec2Model ----
(***************************************************************************)
(* A model of the IXFR engine of ixfr.c: the per-zone version chain of     *)
(* difference segments (zone->ixfr), the segment builder (ixfr_store), the *)
(* response streamer (query_ixfr) and the file persistence.                *)
(*                                                                         *)
(* Representation choices                                                  *)
(*  - A 32-bit serial is the pair <<hi, lo>> of its 16-bit halves, so that *)
(*    unsigned comparison and subtraction modulo 2^32 are exact.           *)
(*  - A domain name is the sequence of its label lengths; its wire size is *)
(*    the sum of (1 + length) plus the root byte.                          *)
(*  - An RR in wire form is a record of its fields; its byte length is     *)
(*    computed from the fields as ixfr_putrr and store_soa compute it.     *)
(*    A byte run (del, add, newsoa, oldsoa) is the sequence of its RRs and *)
(*    byte offsets into a run are sums of RR lengths.                      *)
(*  - A heap object (struct ixfr_data) has an id; a pointer is an id.      *)
(***************************************************************************)
EXTENDS Integers, Sequences, FiniteSets, TLC

VARIABLES
    opts,     \* zone->opts->pattern: ixfr_number, ixfr_size, store_ixfr
    zone,     \* the zone's SOA rrset: rr_count and the current serial
    ixfr,     \* zone->ixfr: NULL or [data (the tree, in key order), total_size]
    store,    \* the segment builder, struct ixfr_store
    query,    \* the streamer state of the query being served (struct query)
    request,  \* the request of that query and what the server knows about it
    replies,  \* the packets query_ixfr has returned for that query, in order
    disk,     \* the IXFR data files of the zone: file number |-> lines
    begun,    \* history: the chain when the builder in progress began
    ub,       \* the process has executed undefined behaviour (use of a freed
              \* chain node, double free); nothing is modelled after it
    walk      \* a call of count_rr_length: the buffer, the offset and, once
              \* it has returned, the length and the highest index it read

vars ==
    <<opts, zone, ixfr, store, query, request, replies, disk, begun, ub, walk>>

NULL == [null |-> TRUE]

\* no call of count_rr_length is followed
NoWalk == NULL

(***************************************************************************)
(* Bounds of the model                                                     *)
(***************************************************************************)
MaxRRs == 1          \* RRs per deleted/added run that the applier hands over
MaxTransfers == 3    \* zone transfers the applier applies in one behaviour

(***************************************************************************)
(* Program constants                                                       *)
(***************************************************************************)
TYPE_A == 1
TYPE_SOA == 6
CLASS_IN == 1
IXFR_STORE_INITIAL_SIZE == 4096
IXFR_MAX_MESSAGE_LEN == 16384   \* MAX_COMPRESSION_OFFSET, the compression-offset cap
IXFR_TSIG_SIGN_EVERY_NTH == 0
QHEADERSZ == 12
SizeofIxfrData == 128     \* sizeof(struct ixfr_data) on a 64-bit build

(***************************************************************************)
(* 32-bit unsigned values as <<hi, lo>>                                    *)
(***************************************************************************)
Half == 2^16

U32(hi, lo) == <<hi, lo>>

S(n) == U32(0, n)

\* x < y on uint32_t
U32Less(x, y) == x[1] < y[1] \/ (x[1] = y[1] /\ x[2] < y[2])

\* (x - y) modulo 2^32
U32Sub(x, y) ==
    LET borrow == IF x[2] < y[2] THEN 1 ELSE 0
    IN  U32((x[1] - y[1] - borrow) % Half, (x[2] - y[2]) % Half)

\* RFC 1982: a < b iff (b - a) mod 2^32 is in (0, 2^31)
SerialLess(a, b) ==
    LET d == U32Sub(b, a)
    IN  d # U32(0, 0) /\ d[1] < Half \div 2

\* compare_serial(a, b): negative, zero or positive
compare_serial(a, b) ==
    IF a = b THEN 0 ELSE IF SerialLess(a, b) THEN -1 ELSE 1

\* ixfrcompare: the tree's order on keys is the plain unsigned order
ixfrcompare(x, y) == IF U32Less(x, y) THEN -1 ELSE IF U32Less(y, x) THEN 1 ELSE 0

(***************************************************************************)
(* Names and RRs                                                           *)
(***************************************************************************)
RECURSIVE name_size(_)
name_size(labels) ==
    IF labels = <<>> THEN 1 ELSE 1 + Head(labels) + name_size(Tail(labels))

Apex == <<7, 2>>             \* example.nl.
NsName == <<2, 7, 2>>        \* ns.example.nl.
MailName == <<4, 7, 2>>      \* mail.example.nl.
WwwName == <<3, 7, 2>>       \* www.example.nl.
LongName == <<63, 63, 63, 61>>   \* a name of the maximum size, 255 bytes

\* The SOA rdata a packet carries: the two names and the serial.
SoaRdata(primns, email, serial) ==
    [primns |-> primns, email |-> email, serial |-> serial]

\* The wire length of an RR: owner, type, class, ttl, rdlen, rdata.
RRLen(rr) == name_size(rr.owner) + 2 + 2 + 4 + 2 + rr.rdlen

RECURSIVE RunLen(_)
RunLen(run) == IF run = <<>> THEN 0 ELSE RRLen(Head(run)) + RunLen(Tail(run))

\* store_soa with the serial left zero
StoreSoaZeroSerial(ttl, primns, email, serial) ==
    [owner |-> Apex, type |-> TYPE_SOA, klass |-> CLASS_IN, ttl |-> ttl,
     rdlen |-> name_size(primns) + name_size(email) + 4 + 4 + 4 + 4 + 4,
     rdata |-> U32(0, 0)]

\* store_soa: the SOA as stored, owned by the zone apex, class IN, with the
\* rdata of the packet (two uncompressed names and five 32-bit fields).
store_soa(ttl, primns, email, serial) ==
    [owner |-> Apex, type |-> TYPE_SOA, klass |-> CLASS_IN, ttl |-> ttl,
     rdlen |-> name_size(primns) + name_size(email) + 4 + 4 + 4 + 4 + 4,
     rdata |-> serial]

\* ixfr_putrr: an RR as stored in a run, rdlen the uncompressed rdata length.
PutRR(owner, type, klass, ttl, rdlen, rdata) ==
    [owner |-> owner, type |-> type, klass |-> klass, ttl |-> ttl,
     rdlen |-> rdlen, rdata |-> rdata]

(***************************************************************************)
(* Segments (struct ixfr_data) and the chain (struct zone_ixfr)            *)
(***************************************************************************)
\* xalloc_zero(sizeof(struct ixfr_data)) with the two serials set
NewData(id, old_serial, new_serial) ==
    [id |-> id, oldserial |-> old_serial, newserial |-> new_serial,
     newsoa |-> <<>>, oldsoa |-> <<>>, del |-> <<>>, add |-> <<>>,
     file_num |-> 0, freed |-> FALSE]

ixfr_data_size(data) ==
    SizeofIxfrData + RunLen(data.newsoa) + RunLen(data.oldsoa)
        + RunLen(data.del) + RunLen(data.add)

\* zone_ixfr_create
zone_ixfr_create == [data |-> <<>>, total_size |-> 0]

Count(x) == Len(x.data)

RemoveAt(seq, i) == SubSeq(seq, 1, i - 1) \o SubSeq(seq, i + 1, Len(seq))

InsertAt(seq, i, e) == SubSeq(seq, 1, i - 1) \o <<e>> \o SubSeq(seq, i, Len(seq))

\* rbtree_search: the index of the node whose key compares equal, or 0
rbtree_search(tree, key) ==
    IF \E i \in 1..Len(tree) : ixfrcompare(key, tree[i].oldserial) = 0
    THEN CHOOSE i \in 1..Len(tree) : ixfrcompare(key, tree[i].oldserial) = 0
    ELSE 0

\* rbtree_insert: a node whose key is already in the tree is not inserted
rbtree_insert(tree, data) ==
    IF rbtree_search(tree, data.oldserial) # 0 THEN tree
    ELSE LET smaller == {i \in 1..Len(tree) :
                            ixfrcompare(tree[i].oldserial, data.oldserial) < 0}
         IN  InsertAt(tree, Cardinality(smaller) + 1, data)

\* zone_ixfr_add
zone_ixfr_add(x, data) ==
    [data |-> rbtree_insert(x.data, data),
     total_size |-> x.total_size + ixfr_data_size(data)]

(***************************************************************************)
(* zone_ixfr_remove calls rbtree_delete(ixfr->data, &data->node.key): the  *)
(* search key handed to the tree is the address of the node's key pointer, *)
(* so ixfrcompare reads the low 32 bits of the pointer stored in node.key  *)
(* (the address of data->oldserial) as if it were a serial.  That word is  *)
(* a value of the build's heap layout: aw.  OwnKey stands for the word     *)
(* being equal to the node's own serial (then the node is unlinked, as     *)
(* intended); it may equal another node's serial (that node is unlinked    *)
(* instead) or no key at all (nothing is unlinked).  In the last two cases *)
(* the node is freed while still linked in the tree.                       *)
(***************************************************************************)
OwnKey == U32(-1, 0)
Unmatched == U32(-1, 1)

\* The result of zone_ixfr_remove on the node at index i: the chain after
\* it, and whether a freed node was left in the tree.
zone_ixfr_remove(x, i, aw) ==
    LET data == x.data[i]
        word == IF aw = OwnKey THEN data.oldserial ELSE aw
        j == rbtree_search(x.data, word)
        marked == [x.data EXCEPT ![i].freed = TRUE]
        tree == IF j = i THEN RemoveAt(x.data, i)
                ELSE IF j # 0 THEN RemoveAt(marked, j)
                ELSE marked
    IN  [x |-> [data |-> tree, total_size |-> x.total_size - ixfr_data_size(data)],
         ub |-> j # i]

\* zone_ixfr_remove_oldest on a chain with count > 0
zone_ixfr_remove_oldest(x, aw) == zone_ixfr_remove(x, 1, aw)

\* while(ixfr->data->count >= ixfr_number) zone_ixfr_remove_oldest(ixfr);
\* the loop is left at the first removal that leaves a freed node linked.
RECURSIVE RemoveWhileCount(_, _, _)
RemoveWhileCount(x, number, aw) ==
    IF Count(x) >= number /\ Count(x) > 0
    THEN LET r == zone_ixfr_remove_oldest(x, aw)
         IN  IF r.ub THEN r ELSE RemoveWhileCount(r.x, number, OwnKey)
    ELSE [x |-> x, ub |-> FALSE]

\* while(count > 0 && total_size + addsize > ixfr_size) zone_ixfr_remove_oldest
RECURSIVE RemoveWhileSize(_, _, _, _)
RemoveWhileSize(x, addsize, size, aw) ==
    IF Count(x) > 0 /\ x.total_size + addsize > size
    THEN LET r == zone_ixfr_remove_oldest(x, aw)
         IN  IF r.ub THEN r ELSE RemoveWhileSize(r.x, addsize, size, OwnKey)
    ELSE [x |-> x, ub |-> FALSE]

\* The end of zone_ixfr_make_space, s being what the loop on the size left:
\* if deleting the oldest elements does not work, the builder is cancelled.
MakeSpaceOrCancel(addsize, s) ==
    IF s.ub THEN [x |-> s.x, cancel |-> FALSE, ub |-> TRUE]
    ELSE [x |-> s.x,
          cancel |-> (Count(s.x) = 0
                      /\ s.x.total_size + addsize > opts.ixfr_size),
          ub |-> FALSE]

\* zone_ixfr_make_space behind the loop on the number of segments, c being
\* what that loop left.
MakeSpaceForSize(x, data, aw, c) ==
    IF c.ub THEN [x |-> c.x, cancel |-> FALSE, ub |-> TRUE]
    ELSE IF opts.ixfr_size = 0 THEN [x |-> c.x, cancel |-> FALSE, ub |-> FALSE]
    ELSE MakeSpaceOrCancel(
             ixfr_data_size(data),
             RemoveWhileSize(c.x, ixfr_data_size(data), opts.ixfr_size,
                             IF c.x = x THEN aw ELSE OwnKey))

\* zone_ixfr_make_space without the test of ixfr_number == 0
MakeSpaceNoZeroCheck(x, data, aw) ==
    IF x = NULL \/ data = NULL THEN [x |-> x, cancel |-> FALSE, ub |-> FALSE]
    ELSE MakeSpaceForSize(x, data, aw,
                          RemoveWhileCount(x, opts.ixfr_number, aw))

\* zone_ixfr_make_space(ixfr, zone, data, ixfr_store): the chain after it,
\* whether it cancelled the builder, and whether it ran into a freed node.
\* aw is the address word of the first node it removes.
zone_ixfr_make_space(x, data, aw) ==
    IF x = NULL \/ data = NULL THEN [x |-> x, cancel |-> FALSE, ub |-> FALSE]
    ELSE IF opts.ixfr_number = 0 THEN [x |-> x, cancel |-> TRUE, ub |-> FALSE]
    ELSE MakeSpaceForSize(x, data, aw,
                          RemoveWhileCount(x, opts.ixfr_number, aw))

\* zone_ixfr_find_serial: the index of the segment with that old serial, or 0
zone_ixfr_find_serial(x, qserial) ==
    IF x = NULL THEN 0 ELSE rbtree_search(x.data, qserial)

(***************************************************************************)
(* The segment builder (struct ixfr_store).  Each operation is a function  *)
(* of the builder st and the chain x to the builder, the chain and the     *)
(* undefined-behaviour flag after it.                                      *)
(***************************************************************************)
\* The serials the zone goes through, one transfer after the other.
Serials == [k \in 1..(MaxTransfers + 1) |-> S(10 * k)]

SerialSet == {Serials[i] : i \in 1..Len(Serials)}

\* The serials of a zone that passes 2^32: 4294967290, then 5, 15, ...
WrapSerials ==
    [k \in 1..(MaxTransfers + 1) |->
        IF k = 1 THEN U32(Half - 1, Half - 6) ELSE S(10 * k - 15)]

\* The serials the zone z goes through
SerialsOf(z) ==
    IF \E k \in 1..Len(WrapSerials) : WrapSerials[k] = z.serial
    THEN WrapSerials ELSE Serials

\* The address words a removal may meet (see zone_ixfr_remove).
AddrWords == {OwnKey, Unmatched} \cup SerialSet

NoStore ==
    [phase |-> "none", cancelled |-> FALSE, data |-> NULL,
     del_capacity |-> 0, add_capacity |-> 0, to_serial |-> S(0)]

Res(st, x, u) == [store |-> st, ixfr |-> x, ub |-> u]

\* ixfr_store_cancel: the data is freed and the builder cancelled
ixfr_store_cancel(st) == [st EXCEPT !.cancelled = TRUE, !.data = NULL]

\* ixfr_rrs_make_space: the capacity after making room for `added` bytes
\* behind `len` bytes; a run that was never allocated has capacity 0.
ixfr_rrs_make_space(len, capacity, added) ==
    IF capacity # 0 /\ len + added <= capacity THEN capacity
    ELSE LET newsize == IF capacity = 0 THEN IXFR_STORE_INITIAL_SIZE
                        ELSE capacity * 2
         IN  IF len + added > newsize THEN len + added ELSE newsize

\* ixfr_store_start(zone, mem, old_serial, new_serial); id is the address
\* of the struct ixfr_data it allocates.
ixfr_store_start(id, old_serial, new_serial) ==
    [phase |-> "open", cancelled |-> FALSE,
     data |-> NewData(id, old_serial, new_serial),
     del_capacity |-> 0, add_capacity |-> 0, to_serial |-> new_serial]

\* ixfr_store_add_newsoa(ixfr_store, packet, ttlpos).  avail: the packet
\* holds the ttl, rdlen and rdata; rdata_ok: read_soa_rdata parses them.
ixfr_store_add_newsoa(st, x, avail, rdata_ok, ttl, rd) ==
    IF st.cancelled THEN Res(st, x, FALSE)
    ELSE IF ~avail \/ ~rdata_ok THEN Res(ixfr_store_cancel(st), x, FALSE)
    ELSE Res([st EXCEPT !.data.newsoa =
                 <<store_soa(ttl, rd.primns, rd.email, rd.serial)>>], x, FALSE)

\* ixfr_store_add_oldsoa behind its call of zone_ixfr_make_space, m being
\* what that call left and d0 the data with the old SOA freed.
AddOldSoaAfterSpace(st, d0, m, avail, rdata_ok, ttl, rd) ==
    IF m.ub THEN Res([st EXCEPT !.data = d0], m.x, TRUE)
    ELSE IF m.cancel \/ ~avail \/ ~rdata_ok
    THEN Res(ixfr_store_cancel(st), m.x, FALSE)
    ELSE Res([st EXCEPT !.data =
                 [d0 EXCEPT !.oldsoa =
                     <<store_soa(ttl, rd.primns, rd.email, rd.serial)>>]],
             m.x, FALSE)

\* ixfr_store_add_oldsoa(ixfr_store, ttl, packet, rrlen)
ixfr_store_add_oldsoa(st, x, avail, rdata_ok, ttl, rd, aw) ==
    IF st.cancelled THEN Res(st, x, FALSE)
    ELSE AddOldSoaAfterSpace(
             st, [st.data EXCEPT !.oldsoa = <<>>],
             zone_ixfr_make_space(x, [st.data EXCEPT !.oldsoa = <<>>], aw),
             avail, rdata_ok, ttl, rd)

\* The data under construction is put in the chain when an RR is stored
PutRRCommits(st, m, which, rr, parse_ok) ==
    Res(st, zone_ixfr_add(IF m.x = NULL THEN zone_ixfr_create ELSE m.x,
                          st.data), FALSE)

\* ixfr_store_putrr behind its call of zone_ixfr_make_space, m being what
\* that call left: the rdata is parsed and the RR appended by ixfr_putrr.
PutRRAfterSpace(st, m, which, rr, parse_ok) ==
    LET run == IF which = "del" THEN st.data.del ELSE st.data.add
        cap == IF which = "del" THEN st.del_capacity ELSE st.add_capacity
        newcap == ixfr_rrs_make_space(RunLen(run), cap, RRLen(rr))
    IN  IF m.ub THEN Res(st, m.x, TRUE)
        ELSE IF m.cancel \/ ~parse_ok
        THEN Res(ixfr_store_cancel(st), m.x, FALSE)
        ELSE IF which = "del"
        THEN Res([st EXCEPT !.data.del = Append(run, rr),
                            !.del_capacity = newcap], m.x, FALSE)
        ELSE Res([st EXCEPT !.data.add = Append(run, rr),
                            !.add_capacity = newcap], m.x, FALSE)

\* ixfr_store_putrr without its test of the RR type
PutRRStoresSoa(st, x, which, rr, parse_ok, aw) ==
    IF st.cancelled THEN Res(st, x, FALSE)
    ELSE PutRRAfterSpace(st, zone_ixfr_make_space(x, st.data, aw), which, rr,
                         parse_ok)

\* ixfr_store_putrr on the deleted run (which = "del", ixfr_store_delrr) or
\* the added run (which = "add", ixfr_store_addrr).  parse_ok: the rdata
\* parses (rdata_wireformat_to_rdata_atoms does not return -1).
ixfr_store_putrr(st, x, which, rr, parse_ok, aw) ==
    IF st.cancelled \/ rr.type = TYPE_SOA THEN Res(st, x, FALSE)
    ELSE PutRRAfterSpace(st, zone_ixfr_make_space(x, st.data, aw), which, rr,
                         parse_ok)

\* The old SOA is put behind the run instead of the new SOA
PutOldSoa(data, run) == run \o data.oldsoa

\* A run left as it is
PutNoSoa(data, run) == run

\* ixfr_put_newsoa: the stored new SOA is appended to a run
ixfr_put_newsoa(data, run) == run \o data.newsoa

\* The data is added without the test on cancelled behind make_space
FinishCommitsCancelled(st, d, m) ==
    Res([st EXCEPT !.phase = "ended", !.cancelled = m.cancel, !.data = NULL],
        zone_ixfr_add(m.x, d), m.ub)

\* ixfr_store_finish behind its call of zone_ixfr_make_space, m being what
\* that call left and d the data with the new SOA put behind both runs.
FinishAfterSpace(st, d, m) ==
    LET trimmed == [st EXCEPT !.del_capacity = RunLen(d.del),
                              !.add_capacity = RunLen(d.add)]
    IN  IF m.ub THEN Res([trimmed EXCEPT !.data = d], m.x, TRUE)
        ELSE IF m.cancel
        THEN Res([ixfr_store_cancel(trimmed) EXCEPT !.phase = "ended"],
                 m.x, FALSE)
        ELSE Res([trimmed EXCEPT !.phase = "ended", !.data = NULL],
                 zone_ixfr_add(m.x, d), FALSE)

\* ixfr_store_finish from the trailing SOAs on, d being the data with them
FinishData(st, x, d, aw) ==
    FinishAfterSpace(
        st, d,
        zone_ixfr_make_space(IF x = NULL THEN zone_ixfr_create ELSE x, d, aw))

\* ixfr_store_finish that drops the chain when the builder is cancelled
FinishCancelledClears(st, x, aw) ==
    IF st.cancelled
    THEN Res([st EXCEPT !.phase = "ended"],
             IF x = NULL THEN x ELSE zone_ixfr_create, FALSE)
    ELSE FinishData(st, x,
                    [st.data EXCEPT
                       !.del = ixfr_put_newsoa(st.data, st.data.del),
                       !.add = ixfr_put_newsoa(st.data, st.data.add)],
                    aw)

\* ixfr_store_finish(ixfr_store, nsd, log_buf, ...)
ixfr_store_finish(st, x, aw) ==
    IF st.cancelled THEN Res([st EXCEPT !.phase = "ended"], x, FALSE)
    ELSE FinishData(st, x,
                    [st.data EXCEPT
                       !.del = ixfr_put_newsoa(st.data, st.data.del),
                       !.add = ixfr_put_newsoa(st.data, st.data.add)],
                    aw)

\* The applier has applied the transfer when it calls finish: the zone's SOA
\* carries the serial the transfer leads to.
ApplierZone(z, st) == [z EXCEPT !.serial = st.to_serial]

(***************************************************************************)
(* The query handler and response streamer                                 *)
(***************************************************************************)
\* An IXFR request as parse_qserial sees it: the header counts, whether the
\* question can be skipped, and for each RR of the authority section
\* whether its parts are in the buffer.
SoaAuthority(serial) ==
    [name_ok |-> TRUE, avail |-> TRUE, type |-> TYPE_SOA, rdata_avail |-> TRUE,
     nsname_ok |-> TRUE, rname_ok |-> TRUE, serial_avail |-> TRUE,
     serial |-> serial]

Request(serial) ==
    [qdcount |-> 1, ancount |-> 0, nscount |-> 1, question_ok |-> TRUE,
     qname |-> Apex, auth |-> <<SoaAuthority(serial)>>]

NoAuthorityRequest ==
    [qdcount |-> 1, ancount |-> 0, nscount |-> 0, question_ok |-> TRUE,
     qname |-> Apex, auth |-> <<>>]

\* The loop of parse_qserial over the authority section, from RR i on.
RECURSIVE ParseAuthority(_, _)
ParseAuthority(pk, i) ==
    IF i > pk.nscount THEN [ok |-> FALSE, qserial |-> S(0)]
    ELSE IF i > Len(pk.auth) THEN [ok |-> FALSE, qserial |-> S(0)]
    ELSE LET rr == pk.auth[i] IN
         IF ~rr.name_ok \/ ~rr.avail \/ ~rr.rdata_avail
         THEN [ok |-> FALSE, qserial |-> S(0)]
         ELSE IF rr.type = TYPE_SOA
         THEN IF ~rr.nsname_ok \/ ~rr.rname_ok \/ ~rr.serial_avail
              THEN [ok |-> FALSE, qserial |-> S(0)]
              ELSE [ok |-> TRUE, qserial |-> rr.serial]
         ELSE ParseAuthority(pk, i + 1)

\* parse_qserial without the test of the question count
ParseAnyQuestionCount(pk) ==
    IF pk.nscount = 0 \/ ~pk.question_ok
    THEN [ok |-> FALSE, qserial |-> S(0), snip_pos |-> QHEADERSZ]
    ELSE LET a == ParseAuthority(pk, 1)
         IN  [ok |-> a.ok, qserial |-> a.qserial,
              snip_pos |-> QHEADERSZ + name_size(pk.qname) + 4]

\* parse_qserial: whether a serial was found, the serial, and the position
\* behind the question where the authority section is snipped off.
parse_qserial(pk) ==
    IF pk.nscount = 0 \/ pk.qdcount # 1 \/ ~pk.question_ok
    THEN [ok |-> FALSE, qserial |-> S(0), snip_pos |-> QHEADERSZ]
    ELSE LET a == ParseAuthority(pk, 1)
         IN  [ok |-> a.ok, qserial |-> a.qserial,
              snip_pos |-> QHEADERSZ + name_size(pk.qname) + 4]

\* zone_get_current_serial: 0 for a zone without SOA
zone_get_current_serial(z) == IF z.rr_count = 0 THEN S(0) ELSE z.serial

\* The SOA is encoded with serial 0 instead of the zone's
ZoneSoaZeroSerial(z) == store_soa(3600, z.primns, z.email, S(0))

\* The zone's SOA RR, as packet_encode_rr puts it in the up-to-date reply.
ZoneSoaRR(z) == store_soa(3600, z.primns, z.email, z.serial)

\* connect_ixfrs without the comparison of adjacent segments
ConnectUnchecked(tree, i) ==
    [connected |-> TRUE, end_serial |-> tree[Len(tree)].newserial]

\* connect_ixfrs from the node at index i: whether every segment up to the
\* end of the tree starts where its predecessor ends, and the last serial.
RECURSIVE connect_ixfrs(_, _)
connect_ixfrs(tree, i) ==
    IF i < Len(tree)
    THEN IF tree[i].newserial # tree[i + 1].oldserial
         THEN [connected |-> FALSE, end_serial |-> S(0)]
         ELSE connect_ixfrs(tree, i + 1)
    ELSE [connected |-> TRUE, end_serial |-> tree[i].newserial]

\* The RR that starts at byte offset current of a run, NULL if none does.
RECURSIVE RRAt(_, _)
RRAt(run, current) ==
    IF run = <<>> THEN NULL
    ELSE IF current = 0 THEN Head(run)
    ELSE IF current < RRLen(Head(run)) THEN NULL
    ELSE RRAt(Tail(run), current - RRLen(Head(run)))

\* count_rr_length on a run of well-framed RRs: the length of the RR at
\* offset current, 0 at or behind the end of the run.
RRLengthAt(run, current) ==
    IF current >= RunLen(run) \/ RRAt(run, current) = NULL THEN 0
    ELSE RRLen(RRAt(run, current))

\* The test with > instead of >=
NewerOnly(qserial, current_serial) ==
    compare_serial(qserial, current_serial) > 0

\* if(compare_serial(qserial, current_serial) >= 0): the query is for the
\* same or a newer serial than the zone's
UpToDate(qserial, current_serial) ==
    compare_serial(qserial, current_serial) >= 0

\* The struct query fields the streamer uses.  ixfr_data and ixfr_end_data
\* are pointers: 0 is NULL.
NewQuery(tcp, maxlen, tsig_ok) ==
    [tcp |-> tcp, maxlen |-> maxlen, tsig_ok |-> tsig_ok,
     ixfr_is_done |-> FALSE, ixfr_data |-> 0, ixfr_end_data |-> 0,
     ixfr_count_newsoa |-> 0, ixfr_count_oldsoa |-> 0,
     ixfr_count_del |-> 0, ixfr_count_add |-> 0, ixfr_pos_of_newsoa |-> 0,
     tsig_prepare_it |-> FALSE, tsig_update_it |-> FALSE,
     tsig_sign_it |-> FALSE]

NoQuery == NewQuery(FALSE, 0, FALSE)

\* The index in the tree of the live struct ixfr_data at address id, 0 if
\* the tree holds no live object at that address.
Deref(x, id) ==
    IF x = NULL THEN 0
    ELSE IF \E i \in 1..Len(x.data) : x.data[i].id = id /\ ~x.data[i].freed
    THEN CHOOSE i \in 1..Len(x.data) : x.data[i].id = id /\ ~x.data[i].freed
    ELSE 0

\* The response under construction: the buffer position and the RRs written.
Packet(pos) == [pos |-> pos, rrs |-> <<>>]

\* The test on the position only
FitsStart(pkt, len, maxlen) == pkt.pos < maxlen

Fits(pkt, len, maxlen) == pkt.pos < maxlen /\ pkt.pos + len < maxlen

buffer_write(pkt, run) ==
    [pos |-> pkt.pos + RunLen(run), rrs |-> pkt.rrs \o run]

Copied(q, pkt, full) == [q |-> q, pkt |-> pkt, full |-> full]

\* while(query->ixfr_count_del < query->ixfr_data->del_len) ...
RECURSIVE CopyDel(_, _, _)
CopyDel(q, pkt, d) ==
    IF q.ixfr_count_del < RunLen(d.del)
    THEN LET rrlen == RRLengthAt(d.del, q.ixfr_count_del) IN
         IF rrlen # 0 /\ Fits(pkt, rrlen, q.maxlen)
         THEN CopyDel([q EXCEPT !.ixfr_count_del = @ + rrlen],
                      buffer_write(pkt, <<RRAt(d.del, q.ixfr_count_del)>>), d)
         ELSE Copied(q, pkt, TRUE)
    ELSE Copied(q, pkt, FALSE)

\* while(query->ixfr_count_add < query->ixfr_data->add_len) ...
RECURSIVE CopyAdd(_, _, _)
CopyAdd(q, pkt, d) ==
    IF q.ixfr_count_add < RunLen(d.add)
    THEN LET rrlen == RRLengthAt(d.add, q.ixfr_count_add) IN
         IF rrlen # 0 /\ Fits(pkt, rrlen, q.maxlen)
         THEN CopyAdd([q EXCEPT !.ixfr_count_add = @ + rrlen],
                      buffer_write(pkt, <<RRAt(d.add, q.ixfr_count_add)>>), d)
         ELSE Copied(q, pkt, TRUE)
    ELSE Copied(q, pkt, FALSE)

\* ixfr_copy_rrs_into_packet, the new SOA of the final segment e: it is
\* copied if it was not yet, and if it fits.
CopyNewSoa(s, e) ==
    IF s.q.ixfr_count_newsoa < RunLen(e.newsoa)
    THEN IF Fits(s.pkt, RunLen(e.newsoa), s.q.maxlen)
         THEN Copied([s.q EXCEPT
                        !.ixfr_count_newsoa = RunLen(e.newsoa),
                        !.ixfr_pos_of_newsoa = s.pkt.pos + RunLen(e.newsoa)],
                     buffer_write(s.pkt, e.newsoa), FALSE)
         ELSE Copied(s.q, s.pkt, TRUE)
    ELSE s

\* ixfr_copy_rrs_into_packet, the old SOA of the current segment d
CopyOldSoa(s, d) ==
    IF s.full THEN s
    ELSE IF s.q.ixfr_count_oldsoa < RunLen(d.oldsoa)
    THEN IF Fits(s.pkt, RunLen(d.oldsoa), s.q.maxlen)
         THEN Copied([s.q EXCEPT !.ixfr_count_oldsoa = RunLen(d.oldsoa)],
                     buffer_write(s.pkt, d.oldsoa), FALSE)
         ELSE Copied(s.q, s.pkt, TRUE)
    ELSE s

\* ixfr_copy_rrs_into_packet, the deleted RRs and then the added RRs
CopyDelRRs(s, d) == IF s.full THEN s ELSE CopyDel(s.q, s.pkt, d)

CopyAddRRs(s, d) == IF s.full THEN s ELSE CopyAdd(s.q, s.pkt, d)

\* ixfr_copy_rrs_into_packet: the query and the packet after copying RRs
\* until one does not fit (full) or the current segment is exhausted.
ixfr_copy_rrs_into_packet(q, pkt, x) ==
    CopyAddRRs(
        CopyDelRRs(
            CopyOldSoa(
                CopyNewSoa(Copied(q, pkt, FALSE),
                           x.data[Deref(x, q.ixfr_end_data)]),
                x.data[Deref(x, q.ixfr_data)]),
            x.data[Deref(x, q.ixfr_data)]),
        x.data[Deref(x, q.ixfr_data)])

\* while(query->ixfr_count_add >= query->ixfr_data->add_len): move to the
\* next segment of the tree and copy on, or finish the stream.  c is what
\* the copying before it left, i the index of the current segment.
RECURSIVE NextSegments(_, _)
NextSegmentFrom(c, x, i) ==
    IF c.q.ixfr_count_add >= RunLen(x.data[i].add)
    THEN IF i < Len(x.data)
         THEN NextSegments(
                  ixfr_copy_rrs_into_packet(
                      [c.q EXCEPT
                         !.ixfr_data = x.data[i + 1].id,
                         !.ixfr_count_oldsoa = RunLen(x.data[i + 1].oldsoa),
                         !.ixfr_count_del = 0,
                         !.ixfr_count_add = 0], c.pkt, x), x)
         ELSE [q |-> [c.q EXCEPT !.tsig_sign_it = TRUE, !.ixfr_is_done = TRUE],
               pkt |-> c.pkt]
    ELSE [q |-> c.q, pkt |-> c.pkt]

NextSegments(c, x) == NextSegmentFrom(c, x, Deref(x, c.q.ixfr_data))

\* No snipping
SnipNothing(rrs, start, pos) == rrs

\* The RRs of a packet that lie before buffer position pos, the packet's
\* first RR starting at position start.
RECURSIVE Snip(_, _, _)
Snip(rrs, start, pos) ==
    IF rrs = <<>> \/ start + RRLen(Head(rrs)) > pos THEN <<>>
    ELSE <<Head(rrs)>> \o Snip(Tail(rrs), start + RRLen(Head(rrs)), pos)

\* Signing of the first and the last packet only
SignFirstAndLast(tsig_ok, sign_it) == sign_it

\* check if it needs tsig signatures: tsig_sign_it when query_ixfr returns a
\* packet of the stream, given its value before the check.  The test on
\* updates_since_last_prepare is compiled only if the constant is positive.
NeedsSignature(tsig_ok, sign_it) ==
    IF tsig_ok /\ IXFR_TSIG_SIGN_EVERY_NTH = 0 THEN TRUE ELSE sign_it

Reply(ret, rcode, aa, tc, qdcount, ancount, rrs, position, sign_it) ==
    [ret |-> ret, rcode |-> rcode, aa |-> aa, tc |-> tc, qdcount |-> qdcount,
     ancount |-> ancount, nscount |-> 0, arcount |-> 0, rrs |-> rrs,
     position |-> position, sign_it |-> sign_it]

Answer(q, reply) == [q |-> q, reply |-> reply]

\* The end of query_ixfr: l is the query and the packet when no more RR is
\* copied.  The counts are set, a UDP answer that is not complete is
\* truncated behind the new SOA, and the need for a signature is checked.
\* FinishPacket returning QUERY_PROCESSED with the packet that ends the
\* stream
FinishPacketProcessed(q, l, start, qdcount) ==
    LET total_added == Len(l.pkt.rrs) % 65536
        truncate == ~q.tcp /\ ~l.q.ixfr_is_done
        snip == ~q.tcp /\ ~l.q.ixfr_is_done /\ l.q.ixfr_pos_of_newsoa # 0
        sign == NeedsSignature(q.tsig_ok, l.q.tsig_sign_it)
    IN  Answer([l.q EXCEPT !.ixfr_is_done = (@ \/ truncate),
                           !.tsig_sign_it = sign],
               Reply(IF l.q.ixfr_is_done \/ truncate THEN "PROCESSED"
                     ELSE "IN_IXFR",
                     "NOERROR", TRUE, truncate, qdcount,
                     IF snip THEN 1 ELSE total_added,
                     IF snip THEN Snip(l.pkt.rrs, start, l.q.ixfr_pos_of_newsoa)
                     ELSE l.pkt.rrs,
                     IF snip THEN l.q.ixfr_pos_of_newsoa ELSE l.pkt.pos,
                     sign))

FinishPacket(q, l, start, qdcount) ==
    LET total_added == Len(l.pkt.rrs) % 65536
        truncate == ~q.tcp /\ ~l.q.ixfr_is_done
        snip == ~q.tcp /\ ~l.q.ixfr_is_done /\ l.q.ixfr_pos_of_newsoa # 0
        sign == NeedsSignature(q.tsig_ok, l.q.tsig_sign_it)
    IN  Answer([l.q EXCEPT !.ixfr_is_done = (@ \/ truncate),
                           !.tsig_sign_it = sign],
               Reply("IN_IXFR", "NOERROR", TRUE, truncate, qdcount,
                     IF snip THEN 1 ELSE total_added,
                     IF snip THEN Snip(l.pkt.rrs, start, l.q.ixfr_pos_of_newsoa)
                     ELSE l.pkt.rrs,
                     IF snip THEN l.q.ixfr_pos_of_newsoa ELSE l.pkt.pos,
                     sign))

\* The question count of the request is left in every packet
StreamPacketKeepsQuestion(q, x, start, qdcount) ==
    FinishPacket(
        q, NextSegments(ixfr_copy_rrs_into_packet(q, Packet(start), x), x),
        start, 1)

\* query_ixfr from the copying of RRs on (the code behind the first-packet
\* test), with the response buffer at position start.
StreamPacket(q, x, start, qdcount) ==
    FinishPacket(
        q, NextSegments(ixfr_copy_rrs_into_packet(q, Packet(start), x), x),
        start, qdcount)

\* query_ixfr(nsd, query).  pk is the request in query->packet on the first
\* call, known whether namedb_find_zone finds the zone, encode_ok whether
\* packet_encode_rr can put the zone's SOA in the response.
query_ixfr(q, x, z, pk, known, encode_ok) ==
    IF q.ixfr_is_done
    THEN Answer(q, Reply("PROCESSED", "NOERROR", FALSE, FALSE, 0, 0, <<>>,
                         QHEADERSZ, q.tsig_sign_it))
    ELSE
    LET q0 == [q EXCEPT
                 !.maxlen = IF @ > IXFR_MAX_MESSAGE_LEN
                            THEN IXFR_MAX_MESSAGE_LEN ELSE @,
                 !.tsig_prepare_it = q.tsig_sign_it,
                 !.tsig_update_it = TRUE,
                 !.tsig_sign_it = FALSE]
    IN
    IF q0.ixfr_data = 0
    THEN LET p == parse_qserial(pk)
             current_serial == zone_get_current_serial(z)
             i == zone_ixfr_find_serial(x, p.qserial)
             done(rcode, aa, ancount, rrs) ==
                 Answer(q0, Reply("PROCESSED", rcode, aa, FALSE, pk.qdcount,
                                  ancount, rrs, p.snip_pos + RunLen(rrs),
                                  FALSE))
             axfr == Answer(q0, Reply("AXFR", "NOERROR", FALSE, FALSE,
                                      pk.qdcount, pk.ancount, <<>>,
                                      p.snip_pos, FALSE))
         IN  IF ~p.ok THEN done("FORMERR", FALSE, pk.ancount, <<>>)
             ELSE IF ~known THEN done("NOTAUTH", FALSE, pk.ancount, <<>>)
             ELSE IF UpToDate(p.qserial, current_serial)
             THEN IF z.rr_count # 1
                  THEN done("SERVFAIL", FALSE, pk.ancount, <<>>)
                  ELSE IF encode_ok
                  THEN done("NOERROR", TRUE, 1, <<ZoneSoaRR(z)>>)
                  ELSE done("SERVFAIL", TRUE, pk.ancount, <<>>)
             ELSE IF x = NULL THEN axfr
             ELSE IF i = 0 THEN axfr
             ELSE IF ~connect_ixfrs(x.data, i).connected
                     \/ connect_ixfrs(x.data, i).end_serial # current_serial
             THEN axfr
             ELSE StreamPacket(
                      [q0 EXCEPT !.ixfr_data = x.data[i].id,
                                 !.ixfr_is_done = FALSE,
                                 !.ixfr_end_data = x.data[Len(x.data)].id,
                                 !.ixfr_count_newsoa = 0,
                                 !.ixfr_count_oldsoa = 0,
                                 !.ixfr_count_del = 0,
                                 !.ixfr_count_add = 0,
                                 !.ixfr_pos_of_newsoa = 0,
                                 !.tsig_sign_it = q0.tsig_ok],
                      x, p.snip_pos, pk.qdcount)
    ELSE StreamPacket(q0, x, QHEADERSZ, 0)

(***************************************************************************)
(* The IXFR data files.  A file is the sequence of its lines; a line is a  *)
(* comment or an RR in zone file text.  The disk maps the numbers of the   *)
(* files that exist to their contents (file 1 is zfile.ixfr, file n is     *)
(* zfile.ixfr.n).                                                          *)
(***************************************************************************)
NoFiles == <<>>

ixfr_file_exists(d, file_num) == file_num \in DOMAIN d

FilePut(d, file_num, lines) ==
    [n \in DOMAIN d \cup {file_num} |-> IF n = file_num THEN lines ELSE d[n]]

\* unlink of a file that exists
FileUnlink(d, file_num) == [n \in DOMAIN d \ {file_num} |-> d[n]]

\* rename of a file that exists
FileRename(d, oldnum, newnum) == FilePut(FileUnlink(d, oldnum), newnum, d[oldnum])

Comment(text) == [kind |-> "comment", text |-> text]

\* print_rr_oneline without the TTL of the RR
PrintNoTtl(rr) ==
    [kind |-> "rr", owner |-> rr.owner, ttl |-> 0, klass |-> rr.klass,
     type |-> rr.type, text |-> <<rr.rdata, rr.rdlen>>]

\* print_rr_oneline: owner, ttl, class, type and the rdata in text; the
\* rdata length is not printed, it follows from the rdata.
print_rr_oneline(rr) ==
    [kind |-> "rr", owner |-> rr.owner, ttl |-> rr.ttl, klass |-> rr.klass,
     type |-> rr.type, text |-> <<rr.rdata, rr.rdlen>>]

\* zonec_parse_string on a line with one RR, and ixfr_putrr of the result
ParsedRR(line) ==
    PutRR(line.owner, line.type, line.klass, line.ttl, line.text[2],
          line.text[1])

\* ixfr_write_rrs: one line per RR of the run
ixfr_write_rrs(run) == [k \in 1..Len(run) |-> print_rr_oneline(run[k])]

ixfr_write_file_header(data) ==
    <<Comment(<<"IXFR data file">>), Comment(<<"zone">>),
      Comment(<<"from_serial", data.oldserial>>),
      Comment(<<"to_serial", data.newserial>>)>>

ixfr_write_file_data(data) ==
    ixfr_write_rrs(data.newsoa) \o ixfr_write_rrs(data.oldsoa)
        \o ixfr_write_rrs(data.del) \o ixfr_write_rrs(data.add)

\* ixfr_target_number_files
ixfr_target_number_files(x) ==
    IF x = NULL THEN 0
    ELSE IF ~opts.store_ixfr THEN 0
    ELSE IF opts.ixfr_number > Count(x) THEN Count(x)
    ELSE opts.ixfr_number

\* while(ixfr_unlink_it(zone, zfile, i, 1)) i++;
RECURSIVE UnlinkFrom(_, _)
UnlinkFrom(d, i) ==
    IF ixfr_file_exists(d, i) THEN UnlinkFrom(FileUnlink(d, i), i + 1) ELSE d

\* ixfr_delete_superfluous_files
ixfr_delete_superfluous_files(d, dest_num_files) ==
    UnlinkFrom(d, dest_num_files + 1)

\* while(dest_num_files < count) zone_ixfr_remove_oldest(zone->ixfr)
RECURSIVE RemoveWhileMore(_, _, _)
RemoveWhileMore(x, dest_num_files, aw) ==
    IF dest_num_files < Count(x)
    THEN LET r == zone_ixfr_remove_oldest(x, aw)
         IN  IF r.ub THEN r ELSE RemoveWhileMore(r.x, dest_num_files, OwnKey)
    ELSE [x |-> x, ub |-> FALSE]

\* ixfr_delete_memory_items
ixfr_delete_memory_items(x, dest_num_files, aw) ==
    IF x = NULL THEN [x |-> x, ub |-> FALSE]
    ELSE RemoveWhileMore(x, dest_num_files, aw)

\* ixfr_delete_rest_files(zone, from, zfile), from being the node at index
\* i: the loop goes on to the previous node while file_num == 0, and in
\* its body unlinks the file of a node whose file_num != 0.
RECURSIVE ixfr_delete_rest_files(_, _, _)
ixfr_delete_rest_files(x, d, i) ==
    IF i < 1 THEN [x |-> x, disk |-> d]
    ELSE IF x.data[i].file_num # 0 THEN [x |-> x, disk |-> d]
    ELSE IF x.data[i].file_num # 0
    THEN ixfr_delete_rest_files(
             [x EXCEPT !.data[i].file_num = 0],
             IF ixfr_file_exists(d, x.data[i].file_num)
             THEN FileUnlink(d, x.data[i].file_num) ELSE d,
             i - 1)
    ELSE ixfr_delete_rest_files(x, d, i - 1)

\* The loop of ixfr_rename_files from the node at index i on; the node at
\* index i is the i-th it renames.  rename_fail: the number of the
\* rename(2) call that fails, 0 if none does; a rename of a file that does
\* not exist fails as well.
RECURSIVE RenameFrom(_, _, _, _, _)
RenameFrom(x, d, i, destnum, rename_fail) ==
    IF i > Len(x.data) THEN [ok |-> TRUE, x |-> x, disk |-> d]
    ELSE IF x.data[i].file_num = 0 THEN [ok |-> TRUE, x |-> x, disk |-> d]
    ELSE IF x.data[i].file_num = destnum THEN [ok |-> TRUE, x |-> x, disk |-> d]
    ELSE LET d1 == IF ixfr_file_exists(d, destnum) THEN FileUnlink(d, destnum)
                   ELSE d
             oldnum == x.data[i].file_num
         IN  IF rename_fail = i \/ ~ixfr_file_exists(d1, oldnum)
             THEN [ok |-> FALSE, x |-> ixfr_delete_rest_files(x, d1, i - 1).x,
                   disk |-> ixfr_delete_rest_files(x, d1, i - 1).disk]
             ELSE LET x2 == [x EXCEPT !.data[i].file_num = destnum]
                      d2 == FileRename(d1, oldnum, destnum)
                  IN  IF destnum - 1 = 0
                      THEN [ok |-> TRUE, x |-> x2, disk |-> d2]
                      ELSE RenameFrom(x2, d2, i + 1, destnum - 1, rename_fail)

\* ixfr_rename_files
ixfr_rename_files(x, d, dest_num_files, rename_fail) ==
    IF x = NULL THEN [ok |-> TRUE, x |-> x, disk |-> d]
    ELSE RenameFrom(x, d, 1, dest_num_files, rename_fail)

\* The loop of ixfr_write_files from the node at index i down, the next
\* file being number num.  write.at: the number of the file whose writing
\* fails, 0 if none does; write.how: it fails at fopen ("open") or behind
\* the header, in ixfr_write_file_data ("data").
RECURSIVE WriteFrom(_, _, _, _, _)
WriteFrom(x, d, i, num, write) ==
    IF i < 1 THEN [x |-> x, disk |-> d]
    ELSE IF x.data[i].file_num # 0 THEN [x |-> x, disk |-> d]
    ELSE IF write.at = num /\ write.how = "open"
    THEN ixfr_delete_rest_files(x, d, i)
    ELSE IF write.at = num /\ write.how = "data"
    THEN ixfr_delete_rest_files(
             x, FilePut(d, num, ixfr_write_file_header(x.data[i])), i)
    ELSE WriteFrom([x EXCEPT !.data[i].file_num = num],
                   FilePut(d, num, ixfr_write_file_header(x.data[i])
                                       \o ixfr_write_file_data(x.data[i])),
                   i - 1, num + 1, write)

\* ixfr_write_files
ixfr_write_files(x, d, write) ==
    IF x = NULL THEN [x |-> x, disk |-> d]
    ELSE WriteFrom(x, d, Len(x.data), 1, write)

\* ixfr_write_to_file from ixfr_write_files on, r being what
\* ixfr_rename_files left.
WriteAfterRename(r, write) ==
    IF ~r.ok THEN [ixfr |-> r.x, disk |-> r.disk, ub |-> FALSE]
    ELSE [ixfr |-> ixfr_write_files(r.x, r.disk, write).x,
          disk |-> ixfr_write_files(r.x, r.disk, write).disk,
          ub |-> FALSE]

\* ixfr_write_to_file from ixfr_rename_files on, d1 being the files and m
\* the chain that the deletions left.
WriteAfterDelete(d1, m, dest_num_files, rename_fail, write) ==
    IF m.ub THEN [ixfr |-> m.x, disk |-> d1, ub |-> TRUE]
    ELSE WriteAfterRename(ixfr_rename_files(m.x, d1, dest_num_files,
                                            rename_fail),
                          write)

\* ixfr_write_to_file(zone, zfile)
ixfr_write_to_file(x, d, rename_fail, write, aw) ==
    WriteAfterDelete(
        ixfr_delete_superfluous_files(d, ixfr_target_number_files(x)),
        ixfr_delete_memory_items(x, ixfr_target_number_files(x), aw),
        ixfr_target_number_files(x), rename_fail, write)

\* zone_ixfr_clear: every node is freed and the tree emptied
zone_ixfr_clear(x) == IF x = NULL THEN x ELSE zone_ixfr_create

\* ixfr_data_readrr from line pos on: comment lines are skipped, the next
\* line is parsed; it fails at the end of the file.
RECURSIVE ixfr_data_readrr(_, _)
ixfr_data_readrr(lines, pos) ==
    IF pos > Len(lines) THEN [ok |-> FALSE, rr |-> NULL, pos |-> pos]
    ELSE IF lines[pos].kind = "comment" THEN ixfr_data_readrr(lines, pos + 1)
    ELSE [ok |-> TRUE, rr |-> ParsedRR(lines[pos]), pos |-> pos + 1]

\* soa_rr_get_serial
soa_rr_get_serial(rr) == rr.rdata

\* ixfr_data_readnewsoa and ixfr_data_readoldsoa: the next RR must be an
\* SOA of class IN owned by the apex.
ReadSoa(lines, pos) ==
    LET r == ixfr_data_readrr(lines, pos)
    IN  IF ~r.ok THEN r
        ELSE IF r.rr.type # TYPE_SOA \/ r.rr.klass # CLASS_IN
                \/ r.rr.owner # Apex
        THEN [ok |-> FALSE, rr |-> NULL, pos |-> r.pos]
        ELSE r

\* ixfr_data_readdel and ixfr_data_readadd: RRs are read up to and with the
\* SOA that carries the new serial.
RECURSIVE ReadSection(_, _, _, _)
ReadSection(lines, pos, newserial, run) ==
    LET r == ixfr_data_readrr(lines, pos)
    IN  IF ~r.ok THEN [ok |-> FALSE, run |-> run, pos |-> r.pos]
        ELSE IF r.rr.type = TYPE_SOA /\ soa_rr_get_serial(r.rr) = newserial
        THEN [ok |-> TRUE, run |-> Append(run, r.rr), pos |-> r.pos]
        ELSE ReadSection(lines, r.pos, newserial, Append(run, r.rr))

\* What ixfr_data_read returns: whether a segment was added, the chain, and
\* the serial the next file has to lead to.
DataRead(ok, x, dest_serial) == [ok |-> ok, x |-> x, dest_serial |-> dest_serial]

\* ixfr_data_read behind the reading: the chain is created if the zone has
\* none, and the segment added if the size allows.
ReadStore(x0, data) ==
    IF opts.ixfr_size # 0
       /\ x0.total_size + ixfr_data_size(data) > opts.ixfr_size
    THEN DataRead(FALSE, x0, data.oldserial)
    ELSE DataRead(TRUE, zone_ixfr_add(x0, data), data.oldserial)

\* ixfr_data_read behind ixfr_data_readadd, which left add
ReadAfterAdd(x, file_num, id, n, o, del, add) ==
    IF ~add.ok THEN DataRead(FALSE, x, soa_rr_get_serial(o.rr))
    ELSE ReadStore(IF x = NULL THEN zone_ixfr_create ELSE x,
                   [NewData(id, soa_rr_get_serial(o.rr),
                            soa_rr_get_serial(n.rr)) EXCEPT
                      !.file_num = file_num, !.newsoa = <<n.rr>>,
                      !.oldsoa = <<o.rr>>, !.del = del.run, !.add = add.run])

\* ixfr_data_read behind ixfr_data_readdel, which left del
ReadAfterDel(x, lines, file_num, id, n, o, del) ==
    IF ~del.ok THEN DataRead(FALSE, x, soa_rr_get_serial(o.rr))
    ELSE ReadAfterAdd(x, file_num, id, n, o, del,
                      ReadSection(lines, del.pos, soa_rr_get_serial(n.rr),
                                  <<>>))

\* ixfr_data_read behind ixfr_data_readoldsoa, which left o
ReadAfterOldSoa(x, lines, dest_serial, file_num, id, n, o) ==
    IF ~o.ok THEN DataRead(FALSE, x, dest_serial)
    ELSE ReadAfterDel(x, lines, file_num, id, n, o,
                      ReadSection(lines, o.pos, soa_rr_get_serial(n.rr),
                                  <<>>))

\* The new SOA of the file is taken whatever its serial
ReadAnySerial(x, lines, dest_serial, file_num, id, n) ==
    IF ~n.ok THEN DataRead(FALSE, x, dest_serial)
    ELSE ReadAfterOldSoa(x, lines, dest_serial, file_num, id, n,
                         ReadSoa(lines, n.pos))

\* ixfr_data_read behind ixfr_data_readnewsoa, which left n: the file must
\* lead to dest_serial.
ReadAfterNewSoa(x, lines, dest_serial, file_num, id, n) ==
    IF ~n.ok THEN DataRead(FALSE, x, dest_serial)
    ELSE IF soa_rr_get_serial(n.rr) # dest_serial
    THEN DataRead(FALSE, x, dest_serial)
    ELSE ReadAfterOldSoa(x, lines, dest_serial, file_num, id, n,
                         ReadSoa(lines, n.pos))

\* ixfr_data_read of the file with the given lines into a new struct
\* ixfr_data at address id.
ixfr_data_read(x, lines, dest_serial, file_num, id) ==
    IF x # NULL /\ Count(x) = opts.ixfr_number
    THEN DataRead(FALSE, x, dest_serial)
    ELSE ReadAfterNewSoa(x, lines, dest_serial, file_num, id,
                         ReadSoa(lines, 1))

\* The smallest address not in the set used.
FreshId(used) == CHOOSE i \in 1..(Cardinality(used) + 1) :
                    /\ i \notin used
                    /\ \A j \in 1..(i - 1) : j \in used

\* while(ixfr_read_one_more_file(nsd, zone, zfile, num_files, &serial))
\* num_files++;  used: the addresses of the objects that are allocated; r:
\* what ixfr_data_read left of file num_files + 1.
RECURSIVE ReadFiles(_, _, _, _, _)
ReadMore(d, num_files, used, r) ==
    IF r.ok
    THEN ReadFiles(r.x, d, num_files + 1, r.dest_serial,
                   used \cup {FreshId(used)})
    ELSE r.x

ReadFiles(x, d, num_files, serial, used) ==
    IF ~ixfr_file_exists(d, num_files + 1) THEN x
    ELSE ReadMore(d, num_files, used,
                  ixfr_data_read(x, d[num_files + 1], serial, num_files + 1,
                                 FreshId(used)))

\* ixfr_read_from_file(nsd, zone, zfile)
ixfr_read_from_file(x, z, d, used) ==
    ReadFiles(zone_ixfr_clear(x), d, 0, zone_get_current_serial(z), used)

(***************************************************************************)
(* Inputs                                                                  *)
(***************************************************************************)
\* rdata lengths of the RRs of a transfer: an address, and an RR so large
\* that two of them do not fit in one response.
RdLens == {4, 9000}

\* The names in the zone's SOA: short ones, or names of the maximum size.
SoaNames == {<<NsName, MailName>>, <<LongName, LongName>>}

\* The k-th RR the applier hands over for a run of transfer number n.
TransferRR(n, which, k, rdlen) ==
    PutRR(WwwName, TYPE_A, CLASS_IN, 3600, rdlen, <<n, which, k>>)

\* The number of the transfer that starts at the zone's serial.
TransferNumber(z) ==
    IF \E k \in 1..Len(Serials) : SerialsOf(z)[k] = z.serial
    THEN CHOOSE k \in 1..Len(Serials) : SerialsOf(z)[k] = z.serial
    ELSE 0

\* Serials a client may ask for: those the zone went through, one it has
\* not reached yet, and one at distance 2^31 of the first.
QSerials ==
    SerialSet \cup {S(10 * (MaxTransfers + 2)), U32(Half \div 2, 10)}

\* The requests: one for each serial, and those parse_qserial turns down: no
\* authority section, two questions, an authority section without SOA, an
\* SOA cut short in front of its serial.
Requests ==
    {Request(q) : q \in QSerials}
        \cup {NoAuthorityRequest,
              [Request(Serials[1]) EXCEPT !.qdcount = 2],
              [Request(Serials[1]) EXCEPT !.auth[1].type = TYPE_A],
              [Request(Serials[1]) EXCEPT !.auth[1].serial_avail = FALSE]}

\* A request as it reaches query_ixfr: the packet, whether the server has
\* the zone, and whether the zone's SOA can be encoded in the response.
Asked(pk, known, encode_ok) ==
    [pk |-> pk, known |-> known, encode_ok |-> encode_ok]

NoRequest == Asked(NoAuthorityRequest, FALSE, FALSE)

Asks ==
    {Asked(pk, TRUE, TRUE) : pk \in Requests}
        \cup {Asked(Request(q), FALSE, TRUE) : q \in {Serials[1]}}
        \cup {Asked(Request(q), TRUE, FALSE) : q \in QSerials}

\* Transport and the maximum response length that comes with it.
Transports ==
    {[tcp |-> FALSE, maxlen |-> 512], [tcp |-> FALSE, maxlen |-> 4096],
     [tcp |-> TRUE, maxlen |-> 65535]}

(***************************************************************************)
(* A whole transfer through the builder, in the applier's order: begin,    *)
(* new SOA, old SOA, the deleted RRs, the added RRs, finish.  A transfer   *)
(* t is lost when the applier cancels the builder before finish.           *)
(***************************************************************************)
\* One call of the applier on the builder: r is what the call before it
\* left (the builder, the chain, the undefined-behaviour flag).
Call(r, names, c) ==
    CASE c.op = "start" ->
           Res(ixfr_store_start(c.n, Serials[c.n], Serials[c.n + 1]),
               r.ixfr, r.ub)
      [] c.op = "newsoa" ->
           ixfr_store_add_newsoa(r.store, r.ixfr, TRUE, TRUE, 3600,
               SoaRdata(names[1], names[2], Serials[c.n + 1]))
      [] c.op = "oldsoa" ->
           ixfr_store_add_oldsoa(r.store, r.ixfr, TRUE, TRUE, 3600,
               SoaRdata(names[1], names[2], Serials[c.n]), OwnKey)
      [] c.op = "rr" ->
           ixfr_store_putrr(r.store, r.ixfr, c.which,
               TransferRR(c.n, c.which, c.k, c.rdlen), TRUE, OwnKey)
      [] c.op = "cancel" -> Res(ixfr_store_cancel(r.store), r.ixfr, r.ub)
      [] c.op = "finish" -> ixfr_store_finish(r.store, r.ixfr, OwnKey)

ACall(op, n, which, k, rdlen) ==
    [op |-> op, n |-> n, which |-> which, k |-> k, rdlen |-> rdlen]

\* The calls of transfer number n
TransferCalls(n, t) ==
    <<ACall("start", n, "", 0, 0), ACall("newsoa", n, "", 0, 0),
      ACall("oldsoa", n, "", 0, 0)>>
        \o [k \in 1..t.ndel |-> ACall("rr", n, "del", k, t.rdlen)]
        \o [k \in 1..t.nadd |-> ACall("rr", n, "add", k, t.rdlen)]
        \o (IF t.lost THEN <<ACall("cancel", n, "", 0, 0)>> ELSE <<>>)
        \o <<ACall("finish", n, "", 0, 0)>>

\* The calls are made one after the other, each on the value the one
\* before it returned.
RECURSIVE ApplyCalls(_, _, _, _)
ApplyCalls(r, names, calls, i) ==
    IF i > Len(calls) THEN r
    ELSE ApplyCalls(Call(r, names, calls[i]), names, calls, i + 1)

ApplyTransfer(x, names, n, t) ==
    ApplyCalls(Res(NoStore, x, FALSE), names, TransferCalls(n, t), 1).ixfr

\* The transfers of a script carry RRs of one size.
Transfers(rdlen) ==
    [lost : BOOLEAN, ndel : 0..MaxRRs, nadd : 0..MaxRRs, rdlen : {rdlen}]

Scripts ==
    UNION {[1..n -> Transfers(rdlen)] : n \in 0..MaxTransfers, rdlen \in RdLens}

RECURSIVE ApplyScript(_, _, _, _)
ApplyScript(x, names, script, n) ==
    IF n > Len(script) THEN x
    ELSE ApplyScript(ApplyTransfer(x, names, n, script[n]), names, script, n + 1)

(***************************************************************************)
(* Queries                                                                 *)
(***************************************************************************)
\* A client sends an IXFR request: the first call of query_ixfr on a fresh
\* query.
StartQuery ==
    /\ ~ub
    /\ replies = <<>>
    /\ \E ask \in Asks, tr \in Transports, tsig_ok \in BOOLEAN :
         \E a \in {query_ixfr(NewQuery(tr.tcp, tr.maxlen, tsig_ok), ixfr, zone,
                              ask.pk, ask.known, ask.encode_ok)} :
            /\ query' = a.q
            /\ request' = ask
            /\ replies' = <<a.reply>>
    /\ UNCHANGED <<opts, zone, ixfr, store, disk, begun, ub, walk>>

\* The server has written a packet of the stream and calls query_ixfr for
\* the next one.  A pointer of the query to a struct ixfr_data that has
\* been freed is dereferenced by the call.
NextPacket ==
    /\ ~ub
    /\ replies # <<>>
    /\ replies[Len(replies)].ret = "IN_IXFR"
    /\ query.tcp
    /\ IF ~query.ixfr_is_done
          /\ (Deref(ixfr, query.ixfr_data) = 0
              \/ Deref(ixfr, query.ixfr_end_data) = 0)
       THEN /\ ub' = TRUE
            /\ UNCHANGED <<query, replies>>
       ELSE \E a \in {query_ixfr(query, ixfr, zone, NoAuthorityRequest, TRUE,
                                  TRUE)} :
               /\ query' = a.q
               /\ replies' = Append(replies, a.reply)
               /\ ub' = ub
    /\ UNCHANGED <<opts, zone, ixfr, store, request, disk, begun, walk>>

(***************************************************************************)
(* The applier drives the builder one call at a time, in the order of an   *)
(* incoming transfer: start, new SOA, old SOA, deleted RRs, added RRs,     *)
(* finish; it may cancel at any point.  A call on a cancelled builder      *)
(* returns at once and is left out, but for finish.  The address word aw   *)
(* matters only to a call that removes a segment.                          *)
(***************************************************************************)
\* The addresses of the struct ixfr_data objects that are in use or that a
\* pointer still refers to.
UsedIds ==
    (IF ixfr = NULL THEN {} ELSE {ixfr.data[i].id : i \in 1..Len(ixfr.data)})
        \cup (IF store.data = NULL THEN {} ELSE {store.data.id})
        \cup ({query.ixfr_data, query.ixfr_end_data} \ {0})

Building == store.phase = "open" /\ ~store.cancelled

Begin ==
    /\ ~ub
    /\ store.phase # "open"
    /\ TransferNumber(zone) \in 1..MaxTransfers
    /\ store' = ixfr_store_start(FreshId(UsedIds),
                                 SerialsOf(zone)[TransferNumber(zone)],
                                 SerialsOf(zone)[TransferNumber(zone) + 1])
    /\ begun' = ixfr
    /\ UNCHANGED <<opts, zone, ixfr, query, request, replies, disk, ub, walk>>

\* What a builder call leaves behind
Leaves(r) ==
    /\ store' = r.store
    /\ ixfr' = r.ixfr
    /\ ub' = r.ub
    /\ UNCHANGED <<opts, query, request, replies, disk, begun, walk>>

AddNewSoa ==
    /\ ~ub
    /\ Building
    /\ store.data.newsoa = <<>>
    /\ \E avail \in BOOLEAN, rdata_ok \in BOOLEAN :
         Leaves(ixfr_store_add_newsoa(
                    store, ixfr, avail, rdata_ok, 3600,
                    SoaRdata(zone.primns, zone.email, store.data.newserial)))
    /\ UNCHANGED zone

AddOldSoa ==
    /\ ~ub
    /\ Building
    /\ store.data.newsoa # <<>>
    /\ store.data.oldsoa = <<>>
    /\ \E avail \in BOOLEAN, rdata_ok \in BOOLEAN, aw \in AddrWords :
         Leaves(ixfr_store_add_oldsoa(
                    store, ixfr, avail, rdata_ok, 3600,
                    SoaRdata(zone.primns, zone.email, store.data.oldserial),
                    aw))
    /\ UNCHANGED zone

\* ixfr_store_delrr
DelRR ==
    /\ ~ub
    /\ Building
    /\ store.data.oldsoa # <<>>
    /\ store.data.add = <<>>
    /\ Len(store.data.del) < MaxRRs
    /\ \E parse_ok \in BOOLEAN, aw \in AddrWords :
         Leaves(ixfr_store_putrr(
                    store, ixfr, "del",
                    TransferRR(TransferNumber(zone), "del",
                               Len(store.data.del) + 1, 4),
                    parse_ok, aw))
    /\ UNCHANGED zone

\* ixfr_store_addrr
AddRR ==
    /\ ~ub
    /\ Building
    /\ store.data.oldsoa # <<>>
    /\ Len(store.data.add) < MaxRRs
    /\ \E parse_ok \in BOOLEAN, aw \in AddrWords :
         Leaves(ixfr_store_putrr(
                    store, ixfr, "add",
                    TransferRR(TransferNumber(zone), "add",
                               Len(store.data.add) + 1, 4),
                    parse_ok, aw))
    /\ UNCHANGED zone

\* The applier gives the transfer up: ixfr_store_cancel
Cancel ==
    /\ ~ub
    /\ Building
    /\ Leaves(Res(ixfr_store_cancel(store), ixfr, FALSE))
    /\ UNCHANGED zone

\* The transfer is applied and the applier calls ixfr_store_finish.
Finish ==
    /\ ~ub
    /\ store.phase = "open"
    /\ IF store.cancelled THEN TRUE ELSE store.data.oldsoa # <<>>
    /\ \E aw \in AddrWords : Leaves(ixfr_store_finish(store, ixfr, aw))
    /\ zone' = ApplierZone(zone, store)

\* The applier calls ixfr_store_finish on a builder that was given the new
\* SOA and not the old SOA.  (Without the new SOA both runs are empty, and
\* ixfr_trim_capacity hands them to xrealloc with size 0, the outcome of
\* which is not this file's.)
FinishEarly ==
    /\ ~ub
    /\ Building
    /\ store.data.newsoa # <<>>
    /\ store.data.oldsoa = <<>>
    /\ \E aw \in AddrWords : Leaves(ixfr_store_finish(store, ixfr, aw))
    /\ zone' = ApplierZone(zone, store)

\* The calls the applier goes on to make on a builder that is cancelled.
CancelledCalls == {"cancel", "newsoa", "oldsoa", "delrr", "addrr"}

CallCancelled ==
    /\ ~ub
    /\ store.phase = "open"
    /\ store.cancelled
    /\ \E op \in CancelledCalls, ok \in BOOLEAN, aw \in AddrWords :
         Leaves(
           CASE op = "cancel" -> Res(ixfr_store_cancel(store), ixfr, FALSE)
             [] op = "newsoa" ->
                  ixfr_store_add_newsoa(
                      store, ixfr, ok, ok, 3600,
                      SoaRdata(zone.primns, zone.email, store.to_serial))
             [] op = "oldsoa" ->
                  ixfr_store_add_oldsoa(
                      store, ixfr, ok, ok, 3600,
                      SoaRdata(zone.primns, zone.email, zone.serial), aw)
             [] op = "delrr" ->
                  ixfr_store_putrr(store, ixfr, "del",
                                   TransferRR(TransferNumber(zone), "del", 1, 4),
                                   ok, aw)
             [] op = "addrr" ->
                  ixfr_store_putrr(store, ixfr, "add",
                                   TransferRR(TransferNumber(zone), "add", 1, 4),
                                   ok, aw))
    /\ UNCHANGED zone

\* ixfr_store_delrr and ixfr_store_addrr given an SOA: the applier hands
\* every RR of the transfer to the builder, the SOAs that delimit the
\* sections among them.
PutSoaRR ==
    /\ ~ub
    /\ Building
    /\ \E which \in {"del", "add"}, parse_ok \in BOOLEAN, aw \in AddrWords,
          serial \in {store.data.oldserial, store.data.newserial} :
         Leaves(ixfr_store_putrr(
                    store, ixfr, which,
                    store_soa(3600, zone.primns, zone.email, serial),
                    parse_ok, aw))
    /\ UNCHANGED zone

(***************************************************************************)
(* The zone file is read (ixfr_read_from_file) or has been written         *)
(* (ixfr_write_to_file); the process that does so is not in the middle of  *)
(* a transfer.                                                             *)
(***************************************************************************)
ReadFromFile ==
    /\ ~ub
    /\ store.phase # "open"
    /\ ixfr' = ixfr_read_from_file(ixfr, zone, disk, UsedIds)
    /\ UNCHANGED <<opts, zone, store, query, request, replies,
                 disk, begun, ub, walk>>

\* The failures a call of ixfr_write_to_file may meet: which rename(2)
\* fails, and which file cannot be written and how.
RenameFailures == 0..2

Written == [at |-> 0, how |-> "ok"]

WriteFailures ==
    {Written} \cup [at : 1..2, how : {"open", "data"}]

\* ixfr_write_to_file under the given failures
WriteToFileWith(rename_fail, write, aw) ==
    /\ ~ub
    /\ store.phase # "open"
    /\ \E w \in {ixfr_write_to_file(ixfr, disk, rename_fail, write, aw)} :
          /\ ixfr' = w.ixfr
          /\ disk' = w.disk
          /\ ub' = w.ub
    /\ UNCHANGED <<opts, zone, store, query, request, replies, begun, walk>>

\* The address words ixfr_write_to_file may meet: it reads one only where
\* ixfr_delete_memory_items has an item to remove.
WriteAddrWords ==
    IF ixfr = NULL THEN {OwnKey}
    ELSE IF Count(ixfr) > ixfr_target_number_files(ixfr) THEN AddrWords
    ELSE {OwnKey}

WriteToFile ==
    \E rename_fail \in RenameFailures, write \in WriteFailures,
       aw \in WriteAddrWords :
        WriteToFileWith(rename_fail, write, aw)

(***************************************************************************)
(* SpecQuery: queries against a chain the builder has built               *)
(***************************************************************************)
InitQuery ==
    \E names \in SoaNames, script \in Scripts :
       /\ opts = [ixfr_number |-> MaxTransfers, ixfr_size |-> 0,
                  store_ixfr |-> TRUE]
       /\ zone \in {[rr_count |-> c, serial |-> Serials[Len(script) + 1],
                     primns |-> names[1], email |-> names[2]] :
                    c \in IF script = <<>> THEN {0, 1, 2} ELSE {1}}
       /\ ixfr = ApplyScript(NULL, names, script, 1)
       /\ store = NoStore
       /\ query = NoQuery
       /\ request = NoRequest
       /\ replies = <<>>
       /\ disk = NoFiles
       /\ begun = NULL
       /\ ub = FALSE
       /\ walk = NoWalk

NextQuery == StartQuery \/ NextPacket

SpecQuery == InitQuery /\ [][NextQuery]_vars

(***************************************************************************)
(* SpecStore: a server that starts with the files an earlier run left,     *)
(* under a configuration that may differ from that run's; transfers come   *)
(* in and the files are read and written.                                  *)
(***************************************************************************)
\* ixfr-number and ixfr-size of the zone.  A segment without RRs takes 424
\* bytes, one more RR 30: 450 bytes hold only a segment with no RR, 900
\* bytes hold two segments.
Budgets ==
    [ixfr_number : 0..2, ixfr_size : {0, 450, 900}, store_ixfr : {TRUE}]

\* Segment k as a run that stored it finished it: one RR deleted, one added.
WrittenSegment(names, k) ==
    LET new == store_soa(3600, names[1], names[2], Serials[k + 1])
        old == store_soa(3600, names[1], names[2], Serials[k])
    IN  [NewData(k, Serials[k], Serials[k + 1]) EXCEPT
           !.newsoa = <<new>>, !.oldsoa = <<old>>,
           !.del = <<TransferRR(k, "del", 1, 4), new>>,
           !.add = <<TransferRR(k, "add", 1, 4), new>>]

\* The files of a zone at transfer number n + 1 whose n segments were all
\* written: file 1 holds the newest.
PreviousFiles(names, n) ==
    [f \in 1..n |->
        ixfr_write_file_header(WrittenSegment(names, n + 1 - f))
            \o ixfr_write_file_data(WrittenSegment(names, n + 1 - f))]

InitStore ==
    \E n \in 0..(MaxTransfers - 1) :
       /\ opts \in Budgets
       /\ zone = [rr_count |-> 1, serial |-> Serials[n + 1],
                  primns |-> NsName, email |-> MailName]
       /\ ixfr = NULL
       /\ store = NoStore
       /\ query = NoQuery
       /\ request = NoRequest
       /\ replies = <<>>
       /\ disk \in {NoFiles, PreviousFiles(<<NsName, MailName>>, n)}
       /\ begun = NULL
       /\ ub = FALSE
       /\ walk = NoWalk

NextStore ==
    \/ Begin
    \/ AddNewSoa
    \/ AddOldSoa
    \/ DelRR
    \/ AddRR
    \/ Cancel
    \/ Finish
    \/ ReadFromFile
    \/ WriteToFile

SpecStore == InitStore /\ [][NextStore]_vars

(***************************************************************************)
(* SpecFiles: as SpecStore, with room for three segments, so that files    *)
(* are renamed and written in every call of ixfr_write_to_file.            *)
(***************************************************************************)
InitFiles ==
    \E n \in 0..(MaxTransfers - 1) :
       /\ opts \in [ixfr_number : {2, 3}, ixfr_size : {0, 900},
                    store_ixfr : {TRUE}]
       /\ zone = [rr_count |-> 1, serial |-> Serials[n + 1],
                  primns |-> NsName, email |-> MailName]
       /\ ixfr = NULL
       /\ store = NoStore
       /\ query = NoQuery
       /\ request = NoRequest
       /\ replies = <<>>
       /\ disk \in {NoFiles, PreviousFiles(<<NsName, MailName>>, n)}
       /\ begun = NULL
       /\ ub = FALSE
       /\ walk = NoWalk

SpecFiles == InitFiles /\ [][NextStore]_vars

(***************************************************************************)
(* SpecWrap: as SpecStore, for a zone whose serial passes 2^32.            *)
(***************************************************************************)
InitWrap ==
    /\ opts \in [ixfr_number : 1..3, ixfr_size : {0}, store_ixfr : {TRUE}]
    /\ zone = [rr_count |-> 1, serial |-> WrapSerials[1],
               primns |-> NsName, email |-> MailName]
    /\ ixfr = NULL
    /\ store = NoStore
    /\ query = NoQuery
    /\ request = NoRequest
    /\ replies = <<>>
    /\ disk = NoFiles
    /\ begun = NULL
    /\ ub = FALSE
    /\ walk = NoWalk

SpecWrap == InitWrap /\ [][NextStore]_vars

(***************************************************************************)
(* SpecBuilder: as SpecStore, under an applier that also calls finish      *)
(* before the SOAs were given, goes on calling a cancelled builder and     *)
(* hands the SOAs of the sections to delrr and addrr.                      *)
(***************************************************************************)
NextBuilder ==
    \/ NextStore
    \/ FinishEarly
    \/ CallCancelled
    \/ PutSoaRR

SpecBuilder == InitStore /\ [][NextBuilder]_vars

(***************************************************************************)
(* SpecServe: a stream is in progress while the chain it reads from is     *)
(* worked on.                                                              *)
(***************************************************************************)
\* The last call of query_ixfr asked to be called again and the stream is
\* not done.
Streaming ==
    /\ replies # <<>>
    /\ replies[Len(replies)].ret = "IN_IXFR"
    /\ query.tcp
    /\ ~query.ixfr_is_done

FullTransfer(rdlen) ==
    [lost |-> FALSE, ndel |-> MaxRRs, nadd |-> MaxRRs, rdlen |-> rdlen]

InitServe ==
    \E n \in 1..(MaxTransfers - 1), rdlen \in RdLens :
       /\ opts \in [ixfr_number : {n, n + 1}, ixfr_size : {0},
                    store_ixfr : {TRUE}]
       /\ zone = [rr_count |-> 1, serial |-> Serials[n + 1],
                  primns |-> NsName, email |-> MailName]
       /\ ixfr = ApplyScript(NULL, <<NsName, MailName>>,
                             [i \in 1..n |-> FullTransfer(rdlen)], 1)
       /\ store = NoStore
       /\ query = NoQuery
       /\ request = NoRequest
       /\ replies = <<>>
       /\ disk = NoFiles
       /\ begun = NULL
       /\ ub = FALSE
       /\ walk = NoWalk

NextServe ==
    \/ StartQuery
    \/ NextPacket
    \/ Streaming /\ Begin
    \/ Streaming /\ AddNewSoa
    \/ Streaming /\ AddOldSoa
    \/ Streaming /\ DelRR
    \/ Streaming /\ AddRR
    \/ Streaming /\ Cancel
    \/ Streaming /\ Finish
    \/ Streaming /\ ReadFromFile
    \/ Streaming /\ WriteToFile

SpecServe == InitServe /\ [][NextServe]_vars

(***************************************************************************)
(* SpecReconf: as SpecFiles, under a configuration reload that turns       *)
(* store-ixfr off for the zone.  Transfers are stored and files read only  *)
(* while it is on; the zone file, and with it the IXFR files, is written   *)
(* at any time.  With the target 0 no file is renamed or written, so a     *)
(* call with store-ixfr off meets no failure of a rename or a write.       *)
(***************************************************************************)
StoreOff ==
    /\ ~ub
    /\ store.phase # "open"
    /\ opts.store_ixfr
    /\ opts' = [opts EXCEPT !.store_ixfr = FALSE]
    /\ UNCHANGED <<zone, ixfr, store, query, request, replies, disk, begun,
                   ub, walk>>

NextReconf ==
    \/ opts.store_ixfr /\ Begin
    \/ opts.store_ixfr /\ AddNewSoa
    \/ opts.store_ixfr /\ AddOldSoa
    \/ opts.store_ixfr /\ DelRR
    \/ opts.store_ixfr /\ AddRR
    \/ opts.store_ixfr /\ Cancel
    \/ opts.store_ixfr /\ Finish
    \/ opts.store_ixfr /\ ReadFromFile
    \/ opts.store_ixfr /\ WriteToFile
    \/ ~opts.store_ixfr /\ \E aw \in WriteAddrWords :
                               WriteToFileWith(0, Written, aw)
    \/ StoreOff

SpecReconf == InitFiles /\ [][NextReconf]_vars

(***************************************************************************)
(* SpecServeLive, SpecQueryLive: the TCP handler goes on                   *)
(***************************************************************************)
\* While query_ixfr returns QUERY_IN_IXFR over TCP the handler writes the
\* packet and calls query_ixfr again: a packet that is due is sent.  Where
\* a packet is due NextPacket is enabled, either branch of it changing
\* replies or ub, and only NextPacket appends to the replies of a query in
\* service; the first disjunct states just that, so that the enabling
\* condition is the guard and needs no evaluation of query_ixfr.
AnotherPacket ==
    /\ ~ub
    /\ replies # <<>>
    /\ replies[Len(replies)].ret = "IN_IXFR"
    /\ query.tcp
    /\ \/ replies' = Append(replies, replies[1]) /\ ub' = ub
       \/ NextPacket

SpecServeLive == SpecServe /\ WF_<<replies, ub>>(AnotherPacket)

SpecQueryLive == SpecQuery /\ WF_<<replies, ub>>(AnotherPacket)

(***************************************************************************)
(* SpecWalk: count_rr_length on the bytes of a buffer                      *)
(***************************************************************************)
\* A buffer is a sequence of bytes, data[i] of the code being data[i + 1]
\* here.  A read at an index that is not below the length of the buffer
\* is outside of it; it is followed in `last' and yields a zero.
RECURSIVE PassOwner(_, _, _, _)
\* the while(1) loop of count_rr_length with i at the next label; ok: the
\* loop left through its break, i: behind the name
PassOwner(data, data_len, i, last) ==
    IF i + 1 > data_len THEN [ok |-> FALSE, i |-> i, last |-> last]
    ELSE LET label_size == IF i < Len(data) THEN data[i + 1] ELSE 0
         IN  IF label_size = 0 THEN [ok |-> TRUE, i |-> i + 1, last |-> i]
             ELSE IF (label_size \div 64) % 4 # 0
             THEN [ok |-> FALSE, i |-> i + 1, last |-> i]
             ELSE IF i + 1 + label_size > data_len
             THEN [ok |-> FALSE, i |-> i + 1, last |-> i]
             ELSE PassOwner(data, data_len, i + 1 + label_size, i)

\* count_rr_length with the test of the ten fixed bytes made for eight
CountRRLengthEightFixed(data, data_len, current) ==
    IF current >= data_len THEN [ret |-> 0, last |-> -1]
    ELSE LET o == PassOwner(data, data_len, current, -1)
             i == o.i
             hi == IF i + 8 < Len(data) THEN data[i + 9] ELSE 0
             lo == IF i + 9 < Len(data) THEN data[i + 10] ELSE 0
             rdlen == hi * 256 + lo
         IN  IF ~o.ok THEN [ret |-> 0, last |-> o.last]
             ELSE IF i + 8 > data_len THEN [ret |-> 0, last |-> o.last]
             ELSE IF i + 10 + rdlen > data_len
             THEN [ret |-> 0, last |-> i + 9]
             ELSE [ret |-> i + 10 + rdlen - current, last |-> i + 9]

\* count_rr_length: ret is what it returns, last the highest index of data
\* it read (-1: none).  rdlen is read_uint16 of the two bytes behind type,
\* class and ttl.  The sums stay far below the range of size_t.
count_rr_length(data, data_len, current) ==
    IF current >= data_len THEN [ret |-> 0, last |-> -1]
    ELSE LET o == PassOwner(data, data_len, current, -1)
             i == o.i
             hi == IF i + 8 < Len(data) THEN data[i + 9] ELSE 0
             lo == IF i + 9 < Len(data) THEN data[i + 10] ELSE 0
             rdlen == hi * 256 + lo
         IN  IF ~o.ok THEN [ret |-> 0, last |-> o.last]
             ELSE IF i + 10 > data_len THEN [ret |-> 0, last |-> o.last]
             ELSE IF i + 10 + rdlen > data_len
             THEN [ret |-> 0, last |-> i + 9]
             ELSE [ret |-> i + 10 + rdlen - current, last |-> i + 9]

\* The bytes tried where the owner name is looked for: the end of a name,
\* labels of one and two bytes, and bytes with one or both of the top two
\* bits set.
MaxName == 4

NameBytes == {0, 1, 2, 64, 192}

\* type A, class IN, ttl 3600
FixedBytes == <<0, 1, 0, 1, 0, 0, 14, 16>>

\* rdlen 0, 2 and 256, and up to two bytes behind it
RdlenBytes == {<<0, 0>>, <<0, 2>>, <<1, 0>>}

RdataBytes == {<<>>, <<7>>, <<7, 8>>, <<7, 8, 9>>}

\* The buffers: name bytes, fixed bytes, rdlen and some bytes, cut anywhere
Buffers ==
    UNION {{SubSeq(name \o FixedBytes \o rdlen \o rdata, 1, n) :
               n \in 0..(Len(name) + 10 + Len(rdata))} :
           name \in UNION {[1..k -> NameBytes] : k \in 0..MaxName},
           rdlen \in RdlenBytes, rdata \in RdataBytes}

InitWalk ==
    /\ opts = [ixfr_number |-> 0, ixfr_size |-> 0, store_ixfr |-> TRUE]
    /\ zone = [rr_count |-> 1, serial |-> Serials[1],
               primns |-> NsName, email |-> MailName]
    /\ ixfr = NULL
    /\ store = NoStore
    /\ query = NoQuery
    /\ request = NoRequest
    /\ replies = <<>>
    /\ disk = NoFiles
    /\ begun = NULL
    /\ ub = FALSE
    /\ \E data \in Buffers, current \in 0..2 :
          walk = [data |-> data, current |-> current, called |-> FALSE,
                  ret |-> 0, last |-> -1]

\* The call returns
CountRRLength ==
    /\ walk # NoWalk
    /\ ~walk.called
    /\ \E c \in {count_rr_length(walk.data, Len(walk.data), walk.current)} :
          walk' = [walk EXCEPT !.called = TRUE, !.ret = c.ret,
                               !.last = c.last]
    /\ UNCHANGED <<opts, zone, ixfr, store, query, request, replies, disk,
                   begun, ub>>

SpecWalk == InitWalk /\ [][CountRRLength]_vars

(***************************************************************************)
(* Properties of the query handler and the streamer, under SpecQuery       *)
(***************************************************************************)
\* The serial the request asks for, and the zone's current serial.
AskedSerial == parse_qserial(request.pk).qserial

CurrentSerial == zone_get_current_serial(zone)

\* The request in service was parsed and is for a zone the server has.
Served == replies # <<>> /\ parse_qserial(request.pk).ok /\ request.known

\* q older than c under RFC 1982
Older(q, c) == SerialLess(q, c)

\* The chain can serve the difference from q to c: it has a segment that
\* starts at q, from there on every segment starts where the one before it
\* ends, and the last one ends at c.
Servable(x, q, c) ==
    /\ x # NULL
    /\ \E i \in 1..Len(x.data) :
          /\ x.data[i].oldserial = q
          /\ \A j \in i..(Len(x.data) - 1) :
                x.data[j].newserial = x.data[j + 1].oldserial
          /\ x.data[Len(x.data)].newserial = c

\* The index of the segment that starts at q.
SegmentFrom(tree, q) == CHOOSE i \in 1..Len(tree) : tree[i].oldserial = q

\* The RRs of all packets of the stream, in packet order.
RECURSIVE Concatenation(_)
Concatenation(rs) ==
    IF rs = <<>> THEN <<>> ELSE Head(rs).rrs \o Concatenation(Tail(rs))

IsPrefix(a, b) == Len(a) <= Len(b) /\ a = SubSeq(b, 1, Len(a))

\* The RRs the applier handed over for a run: the run without SOA RRs
\* (ixfr_store_putrr stores no RR of type SOA).
HandedOver(run) == SelectSeq(run, LAMBDA rr : rr.type # TYPE_SOA)

\* C1: for a known zone and a query serial q older than the zone's serial
\* c, query_ixfr starts a stream (returns in-stream with the streamer state
\* set up) if and only if the chain has a segment starting at q, connected
\* from there to its end, and ending at c; in every other such case it
\* hands over to the AXFR handler and sets up no streamer state.
C1_StreamIffConnected ==
    (Served /\ Older(AskedSerial, CurrentSerial)) =>
        IF Servable(ixfr, AskedSerial, CurrentSerial)
        THEN /\ replies[1].ret = "IN_IXFR"
             /\ query.ixfr_data # 0
             /\ query.ixfr_end_data = ixfr.data[Len(ixfr.data)].id
        ELSE /\ replies = <<replies[1]>>
             /\ replies[1].ret = "AXFR"
             /\ query.ixfr_data = 0
             /\ query.ixfr_end_data = 0
             /\ ~query.ixfr_is_done

\* A stream was started from the first of several connected segments.
C1_Witness ==
    /\ Served
    /\ Older(AskedSerial, CurrentSerial)
    /\ replies[1].ret = "IN_IXFR"
    /\ Len(ixfr.data) >= 2
    /\ ixfr.data[1].oldserial = AskedSerial

\* A request was handed over to AXFR because the chain has a gap behind
\* the segment that starts at q.
C1_WitnessGap ==
    /\ Served
    /\ Older(AskedSerial, CurrentSerial)
    /\ replies[1].ret = "AXFR"
    /\ ixfr # NULL
    /\ \E i \in 1..(Len(ixfr.data) - 1) :
          /\ ixfr.data[i].oldserial = AskedSerial
          /\ ixfr.data[i].newserial # ixfr.data[i + 1].oldserial

\* The up-to-date reply: one SOA, the zone's, and no difference.
UpToDateReply(r) ==
    /\ r.ret = "PROCESSED"
    /\ r.rcode = "NOERROR"
    /\ r.ancount = 1
    /\ r.rrs = <<ZoneSoaRR(zone)>>

\* C2 (as amended): query_ixfr takes the up-to-date branch exactly when the
\* query serial q is equal to the zone's serial c or is not older than c
\* under RFC 1982 (q the same or newer, the distance 2^31 included); in
\* that branch it replies with the single SOA carrying c if the zone has
\* exactly one SOA RR and it can be encoded, and with SERVFAIL otherwise;
\* in all other cases it goes on to the chain lookup.
C2_UpToDateIffNotOlder ==
    Served =>
        IF AskedSerial = CurrentSerial \/ ~Older(AskedSerial, CurrentSerial)
        THEN IF zone.rr_count = 1 /\ request.encode_ok
             THEN UpToDateReply(replies[1])
             ELSE /\ replies[1].ret = "PROCESSED"
                  /\ replies[1].rcode = "SERVFAIL"
                  /\ replies[1].rrs = <<>>
        ELSE replies[1].ret \in {"AXFR", "IN_IXFR"}

\* A query for a serial newer than the zone's got the single SOA.
C2_Witness ==
    /\ Served
    /\ Older(CurrentSerial, AskedSerial)
    /\ UpToDateReply(replies[1])

\* C2 as stated: the up-to-date reply is given exactly when c is equal to
\* or newer than q.
C2_UpToDateIffCurrentNewer ==
    Served =>
        (UpToDateReply(replies[1])
            <=> (CurrentSerial = AskedSerial
                 \/ Older(AskedSerial, CurrentSerial)))

\* A stream over TCP is in progress or complete.
TcpStream == replies # <<>> /\ replies[1].ret = "IN_IXFR" /\ query.tcp

\* What the code streams from segment i on: for each segment the RRs
\* handed over as deleted, its new SOA, the RRs handed over as added, and
\* its new SOA again.
RECURSIVE Differences(_, _)
Differences(tree, i) ==
    IF i > Len(tree) THEN <<>>
    ELSE HandedOver(tree[i].del) \o tree[i].newsoa
            \o HandedOver(tree[i].add) \o tree[i].newsoa
            \o Differences(tree, i + 1)

ResponseFrom(tree, i) ==
    tree[Len(tree)].newsoa \o tree[i].oldsoa \o Differences(tree, i)

\* C3 (as amended): over TCP the concatenation of the RRs of the packets of
\* a stream is at all times a prefix of, and once the stream is done is
\* equal to: the new SOA of the final segment, the old SOA of the segment s
\* the query maps to, and then for each segment in chain order from s its
\* deleted RRs, its new SOA, its added RRs and its new SOA again.  The old
\* SOA of a segment after s is not sent.
C3_StreamIsTheDifferences ==
    TcpStream =>
        LET expected == ResponseFrom(ixfr.data, SegmentFrom(ixfr.data, AskedSerial))
            sent == Concatenation(replies)
        IN  /\ IsPrefix(sent, expected)
            /\ query.ixfr_is_done => sent = expected

\* A stream over two segments or more that took several packets is done.
C3_Witness ==
    /\ TcpStream
    /\ query.ixfr_is_done
    /\ SegmentFrom(ixfr.data, AskedSerial) < Len(ixfr.data)
    /\ Len(SelectSeq(replies, LAMBDA r : r.rrs # <<>>)) >= 3
    /\ \E i \in 1..Len(ixfr.data) : HandedOver(ixfr.data[i].del) # <<>>

\* What the stream is stated to be: for each segment its old SOA, its
\* deleted RRs, its new SOA and its added RRs.
RECURSIVE StatedDifferences(_, _)
StatedDifferences(tree, i) ==
    IF i > Len(tree) THEN <<>>
    ELSE tree[i].oldsoa \o HandedOver(tree[i].del) \o tree[i].newsoa
            \o HandedOver(tree[i].add) \o StatedDifferences(tree, i + 1)

\* C3 as stated: the concatenation of a complete stream is the new SOA of
\* the final segment followed by, for each segment from s, its old SOA, its
\* deleted RRs, its new SOA and its added RRs.
C3_StreamAsStated ==
    (TcpStream /\ query.ixfr_is_done) =>
        Concatenation(replies) =
            ixfr.data[Len(ixfr.data)].newsoa
                \o StatedDifferences(ixfr.data, SegmentFrom(ixfr.data, AskedSerial))

\* The serial of an SOA RR, the RR itself for any other RR.
Tag(rr) == IF rr.type = TYPE_SOA THEN <<"SOA", rr.rdata>> ELSE rr

Tags(rrs) == [k \in 1..Len(rrs) |-> Tag(rrs[k])]

SOA(n) == <<"SOA", S(n)>>

\* The chain is the single segment 10 -> 20 of a zone at serial 20, and
\* the query from serial 10 has been answered in full.
SingleSegmentAnswered ==
    /\ Served
    /\ zone.serial = S(20)
    /\ AskedSerial = S(10)
    /\ ixfr # NULL
    /\ Len(ixfr.data) = 1
    /\ ixfr.data[1].oldserial = S(10)
    /\ ixfr.data[1].newserial = S(20)
    /\ replies[1].ret = "IN_IXFR"
    /\ query.ixfr_is_done
    /\ ~replies[1].tc

\* C4 (as amended): for the single-segment chain {10 -> 20} built through
\* the builder, with the zone at serial 20, a query from serial 10 emits
\* exactly SOA(20), SOA(10), the deleted RRs, SOA(20), the added RRs,
\* SOA(20): one SOA stands between the deleted and the added RRs.
C4_SingleSegmentSequence ==
    SingleSegmentAnswered =>
        Tags(Concatenation(replies)) =
            <<SOA(20), SOA(10)>>
                \o Tags(HandedOver(ixfr.data[1].del)) \o <<SOA(20)>>
                \o Tags(HandedOver(ixfr.data[1].add)) \o <<SOA(20)>>

\* The single segment with a deleted and an added RR has been streamed.
C4_Witness ==
    /\ SingleSegmentAnswered
    /\ HandedOver(ixfr.data[1].del) # <<>>
    /\ HandedOver(ixfr.data[1].add) # <<>>

\* C4 as stated: SOA(20), SOA(10), the deleted RRs, a section-end SOA with
\* serial 10 or 20, SOA(20), the added RRs, SOA(20).
C4_SequenceAsStated ==
    SingleSegmentAnswered =>
        \E n \in {10, 20} :
            Tags(Concatenation(replies)) =
                <<SOA(20), SOA(10)>>
                    \o Tags(HandedOver(ixfr.data[1].del)) \o <<SOA(n), SOA(20)>>
                    \o Tags(HandedOver(ixfr.data[1].add)) \o <<SOA(20)>>

\* The response length in force: the peer's, capped.
MaxLen ==
    IF query.maxlen > IXFR_MAX_MESSAGE_LEN THEN IXFR_MAX_MESSAGE_LEN
    ELSE query.maxlen

\* The position behind the question of the request, where the answer starts.
AnswerStart == QHEADERSZ + name_size(request.pk.qname) + 4

\* A stream over UDP that cannot be completed inside the first packet: the
\* whole response does not fit under the maximum length.
UdpIncomplete ==
    /\ replies # <<>>
    /\ replies[1].ret = "IN_IXFR"
    /\ ~query.tcp
    /\ AnswerStart
         + RunLen(ResponseFrom(ixfr.data, SegmentFrom(ixfr.data, AskedSerial)))
         >= MaxLen

FinalNewSoa == ixfr.data[Len(ixfr.data)].newsoa

\* C5 (as amended): over UDP, whenever the stream cannot be completed
\* inside the first packet the reply has the TC bit set and the stream is
\* marked done; if the opening new SOA fits, the reply carries exactly that
\* one RR with ANCOUNT = 1, and if the opening new SOA itself does not fit,
\* the reply carries no RR and ANCOUNT = 0.
C5_UdpTruncation ==
    UdpIncomplete =>
        /\ replies = <<replies[1]>>
        /\ replies[1].tc
        /\ query.ixfr_is_done
        /\ IF AnswerStart + RunLen(FinalNewSoa) < MaxLen
           THEN replies[1].rrs = FinalNewSoa /\ replies[1].ancount = 1
           ELSE replies[1].rrs = <<>> /\ replies[1].ancount = 0

\* A UDP reply was truncated to the opening SOA although more RRs fitted.
C5_Witness ==
    /\ UdpIncomplete
    /\ replies[1].rrs = FinalNewSoa
    /\ AnswerStart + RunLen(FinalNewSoa) + RunLen(ixfr.data[1].oldsoa) < MaxLen

\* A UDP reply in which not even the opening SOA fitted.
C5_WitnessNoSoa ==
    /\ UdpIncomplete
    /\ replies[1].rrs = <<>>
    /\ replies[1].tc

\* C5 as stated: the truncated UDP reply always carries exactly one answer
\* RR, the new SOA of the final segment, with ANCOUNT = 1 and TC set.
C5_AlwaysOneSoa ==
    UdpIncomplete =>
        /\ replies[1].rrs = FinalNewSoa
        /\ replies[1].ancount = 1
        /\ replies[1].tc
        /\ query.ixfr_is_done

\* The packets of the stream: the replies returned in-stream.
StreamPackets == SelectSeq(replies, LAMBDA r : r.ret = "IN_IXFR")

\* A signed stream of three packets or more is done.
SignedLongStream ==
    /\ TcpStream
    /\ query.tsig_ok
    /\ query.ixfr_is_done
    /\ Len(StreamPackets) >= 3

\* C6 (as amended): with TSIG status OK and IXFR_TSIG_SIGN_EVERY_NTH = 0,
\* every packet of a stream is flagged for signing when it is returned,
\* the intermediate packets as well as the first and the last.
C6_EveryPacketSigned ==
    (replies # <<>> /\ query.tsig_ok) =>
        \A k \in 1..Len(replies) :
            replies[k].ret = "IN_IXFR" => replies[k].sign_it

C6_Witness == SignedLongStream /\ StreamPackets[2].sign_it

\* C6 as stated: in a stream of three or more packets exactly the first and
\* the last packet are flagged for signing.
C6_FirstAndLastOnly ==
    SignedLongStream =>
        \A k \in 1..Len(StreamPackets) :
            StreamPackets[k].sign_it <=> k \in {1, Len(StreamPackets)}

(***************************************************************************)
(* Properties of the chain under the builder and the files, under          *)
(* SpecStore                                                               *)
(***************************************************************************)
\* The segments in the tree of a chain, whatever the state of their memory.
Committed(x) ==
    IF x = NULL THEN {}
    ELSE {[x.data[i] EXCEPT !.freed = FALSE] : i \in 1..Len(x.data)}

\* The budget of the configuration
WithinBudget(x) ==
    /\ Count(x) <= opts.ixfr_number
    /\ opts.ixfr_size > 0 => x.total_size <= opts.ixfr_size

\* C7 as stated: in every state reached by builder operations,
\* read_from_file and write_to_file under a fixed configuration, the chain
\* holds at most ixfr_number segments and, if ixfr_size > 0, at most
\* ixfr_size bytes; ixfr_number = 0 and a zone without chain object when
\* read_from_file starts included.  (States in which a removal left a freed
\* node in the tree are not held against the statement.)
C7_BudgetKept == (ixfr # NULL /\ ~ub) => WithinBudget(ixfr)

\* The budget is kept wherever the configured number of segments is not 0.
C7_BudgetKeptIfNumberPositive ==
    (ixfr # NULL /\ ~ub /\ opts.ixfr_number > 0) => WithinBudget(ixfr)

\* The builder ends cancelled in this step.
EndsCancelled ==
    store.phase = "open" /\ store'.phase = "ended" /\ store'.cancelled

BeforeFinish == store.phase = "open" /\ store'.phase = "open"

C10_StreamedSegmentsStay ==
    Streaming =>
        /\ Deref(ixfr, query.ixfr_data) # 0
        /\ Deref(ixfr, query.ixfr_end_data) # 0

(***************************************************************************)
(* Properties of the files of a zone, under SpecFiles                      *)
(***************************************************************************)
\* The files d are none, or exactly the files 1..m for an m <= ixfr_number.
PrefixFiles(d) == \E m \in 0..opts.ixfr_number : DOMAIN d = 1..m

\* C11 as stated: at all times the files of the zone on disk are none, or
\* exactly the files 1..m for some m <= ixfr_number, without gap and
\* without extra file.
C11_FilesArePrefix == PrefixFiles(disk)

\* The call of ixfr_write_to_file under these failures meets the write
\* failure: it leaves another chain than the call whose writes succeed.
WriteFails(rename_fail, write, aw) ==
    /\ write # Written
    /\ ixfr_write_to_file(ixfr, disk, rename_fail, write, aw)
         # ixfr_write_to_file(ixfr, disk, rename_fail, Written, aw)

\* No segment of the chain x is recorded in a file numbered k or more.
NoFileFrom(x, k) == \A i \in 1..Len(x.data) : x.data[i].file_num < k

\* C12 as stated: when the write of file k fails in the write pass of
\* write_to_file, the files k, k+1, ... are deleted and the file numbers of
\* their segments are reset to 0: the files left are exactly 1..k-1.
C12_FailedWriteLeavesPrefix ==
    [][\A rename_fail \in RenameFailures, write \in WriteFailures,
          aw \in WriteAddrWords :
          (WriteToFileWith(rename_fail, write, aw)
             /\ WriteFails(rename_fail, write, aw))
          => /\ DOMAIN disk' = 1..(write.at - 1)
             /\ NoFileFrom(ixfr', write.at)]_vars

\* The call of ixfr_write_to_file under these failures meets a rename that
\* fails: ixfr_rename_files returns 0.
RenameFails(rename_fail, aw) ==
    \E m \in {ixfr_delete_memory_items(ixfr, ixfr_target_number_files(ixfr),
                                        aw)} :
       /\ ~m.ub
       /\ ~ixfr_rename_files(
               m.x,
               ixfr_delete_superfluous_files(disk,
                                             ixfr_target_number_files(ixfr)),
               ixfr_target_number_files(ixfr), rename_fail).ok

\* The contents of the files d
Contents(d) == {d[n] : n \in DOMAIN d}

\* C13 as stated: when a rename fails in the rename pass of write_to_file,
\* the files already renamed in this pass are unlinked, no new file is
\* written, and the files left are none or exactly 1..m.
C13_FailedRenameLeavesPrefix ==
    [][\A rename_fail \in RenameFailures, write \in WriteFailures,
          aw \in WriteAddrWords :
          (WriteToFileWith(rename_fail, write, aw)
             /\ RenameFails(rename_fail, aw))
          => /\ PrefixFiles(disk')
             /\ Contents(disk') \subseteq Contents(disk)]_vars

\* The segments of the chain x in its order: the serials and the four runs.
Runs(x) ==
    IF x = NULL THEN <<>>
    ELSE [i \in 1..Len(x.data) |->
            [oldserial |-> x.data[i].oldserial,
             newserial |-> x.data[i].newserial,
             newsoa |-> x.data[i].newsoa, oldsoa |-> x.data[i].oldsoa,
             del |-> x.data[i].del, add |-> x.data[i].add]]

\* The segments of runs from index i down that lead to serial, each one
\* starting where the one before it ends: the part of the chain that is
\* connected to the serial.
RECURSIVE ConnectedTo(_, _, _)
ConnectedTo(runs, i, serial) ==
    IF i < 1 THEN <<>>
    ELSE IF runs[i].newserial # serial THEN <<>>
    ELSE Append(ConnectedTo(runs, i - 1, runs[i].oldserial), runs[i])

\* The first k segments of the chain x have the files k..1 in d, the other
\* segments have no file.
FilesMatch(x, d, k) ==
    /\ 1..k \subseteq DOMAIN d
    /\ \A i \in 1..Len(x.data) :
          IF i > k THEN x.data[i].file_num = 0
          ELSE /\ x.data[i].file_num = k + 1 - i
               /\ d[k + 1 - i] = ixfr_write_file_header(x.data[i])
                                   \o ixfr_write_file_data(x.data[i])

\* The files d are those of the chain x, and no others.
Stored(x, d) ==
    /\ x # NULL
    /\ DOMAIN d = 1..Len(x.data)
    /\ FilesMatch(x, d, Len(x.data))

\* ixfr_write_to_file is called, nothing fails, on a chain within budget
\* of which the oldest segments have their files, the files on disk being
\* without gap.
WritesChain ==
    /\ ixfr # NULL
    /\ WithinBudget(ixfr)
    /\ PrefixFiles(disk)
    /\ \E k \in 0..Len(ixfr.data) : FilesMatch(ixfr, disk, k)
    /\ \E aw \in WriteAddrWords : WriteToFileWith(0, Written, aw)

\* ixfr_read_from_file is called on the files of the chain, which is
\* within budget.
ReadsChain ==
    /\ Stored(ixfr, disk)
    /\ WithinBudget(ixfr)
    /\ ReadFromFile

RECURSIVE SizeFrom(_, _)
SizeFrom(tree, i) ==
    IF i > Len(tree) THEN 0
    ELSE ixfr_data_size(tree[i]) + SizeFrom(tree, i + 1)

\* C15 as stated: in every reachable state total_size of the chain is the
\* sum of ixfr_data_size over the segments that are in the chain.
C15_TotalSizeIsSum ==
    ixfr # NULL => ixfr.total_size = SizeFrom(ixfr.data, 1)

\* C16 as stated: the order in which the chain is traversed is the order
\* of old_serial under RFC 1982 comparison, also for keys on both sides of
\* the wrap-around at 2^32.  (States in which a removal left a freed node
\* in the tree are not held against the statement.)
C16_ChainInSerialOrder ==
    (ixfr # NULL /\ ~ub) =>
        \A i \in 1..(Len(ixfr.data) - 1) :
            SerialLess(ixfr.data[i].oldserial, ixfr.data[i + 1].oldserial)

\* The segment with address id is in the chain x.
InChain(x, id) == \E i \in 1..Len(x.data) : x.data[i].id = id

\* C17 as stated: whenever make_space or write_to_file removes segments,
\* the removed segments are older than every segment that stays, also
\* when the serials of consecutive commits wrap around 2^32.  (Steps in
\* which a removal left a freed node in the tree are not held against the
\* statement.)
C17_EvictionOldestFirst ==
    [][(/\ ixfr # NULL /\ ixfr' # NULL
        /\ ~ub /\ ~ub'
        /\ store.phase = "open" \/ WriteToFile)
       => \A i, j \in 1..Len(ixfr.data) :
             (~InChain(ixfr', ixfr.data[i].id)
                /\ InChain(ixfr', ixfr.data[j].id))
             => SerialLess(ixfr.data[i].oldserial,
                           ixfr.data[j].oldserial)]_vars

(***************************************************************************)
(* Properties of the builder, under SpecBuilder                            *)
(***************************************************************************)
\* The builder ends: ixfr_store_finish is called.
Ends == store.phase = "open" /\ store'.phase = "ended"

\* C18: when ixfr_number is 0 every build ends cancelled and its finish
\* commits no segment to the chain, whether or not the zone has a chain
\* object when the builder starts.
C18_NoCommitWithNumberZero ==
    [][(opts.ixfr_number = 0 /\ Ends)
       => /\ store'.cancelled
          /\ Committed(ixfr') \subseteq Committed(ixfr)]_vars

\* With ixfr_number 0 a build that began without chain object and was
\* given all its data has ended: it was cancelled in finish, which left an
\* empty chain.
C18_Witness ==
    /\ opts.ixfr_number = 0
    /\ store.phase = "ended"
    /\ store.cancelled
    /\ store.del_capacity > 0
    /\ begun = NULL
    /\ ixfr # NULL
    /\ ixfr.data = <<>>

\* C19: once the builder is cancelled, a further cancel and every later
\* set_new_soa, set_old_soa, add_deleted and add_added call leave the
\* builder and the chain as they are, and finish ends the builder, commits
\* nothing and leaves the chain as it is.
C19_CancelledIsAbsorbing ==
    [][(store.phase = "open" /\ store.cancelled)
       => /\ ixfr' = ixfr
          /\ store'.cancelled
          /\ store'.data = NULL
          /\ store' = store \/ store' = [store EXCEPT !.phase = "ended"]]_vars

\* A builder was cancelled and has ended, and the chain, which holds a
\* segment, is the one the builder began with.
C19_Witness ==
    /\ store.phase = "ended"
    /\ store.cancelled
    /\ store.data = NULL
    /\ ixfr # NULL
    /\ Len(ixfr.data) >= 1
    /\ ixfr = begun

\* C20 as stated: every segment that finish commits to the chain has a
\* non-empty old SOA and a non-empty new SOA, whatever builder calls were
\* made between begin and finish.
C20_CommittedSegmentHasSoas ==
    [][Ends => \A seg \in Committed(ixfr') \ Committed(ixfr) :
                  seg.oldsoa # <<>> /\ seg.newsoa # <<>>]_vars

(***************************************************************************)
(* The tails of a committed segment, under SpecBuilder                     *)
(***************************************************************************)
\* The last RR of a run is an SOA RR that carries one of the serials.
EndsWithSoa(run, serials) ==
    /\ run # <<>>
    /\ run[Len(run)].type = TYPE_SOA
    /\ run[Len(run)].rdata \in serials

StartOf(k) == IF k = 1 THEN AnswerStart ELSE QHEADERSZ

\* The buffer position in front of RR j of reply k.
PositionOf(k, j) == StartOf(k) + RunLen(SubSeq(replies[k].rrs, 1, j - 1))

\* C22: every packet of a stream is shorter than the smaller of the peer's
\* maximum and 16384; it holds whole RRs only, each copied at a position
\* below the maximum with its end below the maximum as well, and the
\* packet ends where the next RR of the stream fails that test.
C22_PacketBelowMaximum ==
    \A k \in 1..Len(replies) :
        replies[k].ret = "IN_IXFR" =>
            /\ MaxLen <= IXFR_MAX_MESSAGE_LEN
            /\ replies[k].position < MaxLen
            /\ replies[k].position = PositionOf(k, Len(replies[k].rrs) + 1)
            /\ \A j \in 1..Len(replies[k].rrs) :
                  /\ PositionOf(k, j) < MaxLen
                  /\ PositionOf(k, j) + RRLen(replies[k].rrs[j]) < MaxLen
            /\ (k < Len(replies) /\ replies[k + 1].ret = "IN_IXFR"
                   /\ replies[k + 1].rrs # <<>>)
                 => ~(/\ replies[k].position < MaxLen
                      /\ replies[k].position + RRLen(replies[k + 1].rrs[1])
                           < MaxLen)

\* A packet of a TCP stream was closed in front of an RR that did not fit
\* any more, and the RR went out in the next packet.
C22_Witness ==
    /\ TcpStream
    /\ Len(StreamPackets) >= 2
    /\ Len(replies[1].rrs) >= 3
    /\ replies[2].rrs # <<>>
    /\ replies[1].position + RRLen(replies[2].rrs[1]) >= MaxLen

\* No streamer state is set up in the query.
NoStreamerState ==
    /\ query.ixfr_data = 0
    /\ query.ixfr_end_data = 0
    /\ ~query.ixfr_is_done

\* The single packet with the zone's current SOA as its one answer RR.
SingleSoaAnswer ==
    /\ replies = <<replies[1]>>
    /\ replies[1].ret = "PROCESSED"
    /\ replies[1].rcode = "NOERROR"
    /\ replies[1].aa
    /\ replies[1].ancount = 1
    /\ replies[1].nscount = 0
    /\ Len(replies[1].rrs) = 1
    /\ replies[1].rrs[1].type = TYPE_SOA
    /\ replies[1].rrs[1].owner = Apex
    /\ replies[1].rrs[1].rdata = CurrentSerial
    /\ NoStreamerState

\* The chain holds one segment and the zone one SOA RR.
SingleSegment ==
    /\ Served
    /\ zone.rr_count = 1
    /\ ixfr # NULL
    /\ Len(ixfr.data) = 1

\* The reply is the start of the incremental stream from the one segment.
StreamOfSegment ==
    /\ replies[1].ret = "IN_IXFR"
    /\ query.ixfr_data = ixfr.data[1].id
    /\ IsPrefix(Concatenation(replies), ResponseFrom(ixfr.data, 1))

C23_WitnessStream ==
    /\ SingleSegment
    /\ AskedSerial = ixfr.data[1].oldserial
    /\ StreamOfSegment
    /\ query.ixfr_is_done
    /\ Concatenation(replies) = ResponseFrom(ixfr.data, 1)

C23_AnswerWhateverEncoding ==
    (Served /\ AskedSerial = CurrentSerial /\ zone.rr_count = 1)
        => SingleSoaAnswer

C23_EverySingleSegment ==
    (SingleSegment /\ request.encode_ok) =>
        /\ AskedSerial = ixfr.data[1].newserial => SingleSoaAnswer
        /\ AskedSerial = ixfr.data[1].oldserial => StreamOfSegment

\* The request is one that parse_qserial turns down: the question count is
\* not 1, the question cannot be skipped, the authority section is empty or
\* holds no SOA that can be parsed.
Malformed(pk) ==
    \/ pk.qdcount # 1
    \/ ~pk.question_ok
    \/ pk.nscount = 0
    \/ ~\E i \in 1..Len(pk.auth) :
          /\ pk.auth[i].type = TYPE_SOA
          /\ pk.auth[i].nsname_ok
          /\ pk.auth[i].rname_ok
          /\ pk.auth[i].serial_avail

\* The streamer fields of the query are as they are in a fresh query.
StreamerUntouched(q) ==
    /\ q.ixfr_data = 0
    /\ q.ixfr_end_data = 0
    /\ ~q.ixfr_is_done
    /\ q.ixfr_count_newsoa = 0
    /\ q.ixfr_count_oldsoa = 0
    /\ q.ixfr_count_del = 0
    /\ q.ixfr_count_add = 0
    /\ q.ixfr_pos_of_newsoa = 0
    /\ ~q.tsig_sign_it

\* C24: a query that ends in a protocol error returns processed with the
\* matching RCODE: FORMERR when the question count is not 1, the authority
\* section is empty or it holds no SOA that can be parsed, NOTAUTH when the
\* request is well-formed and no zone matches the name.  In each case the
\* streamer state of the query stays as it was (no current segment, not
\* done), no RR is put in the reply, and the zone and its chain are left as
\* they are.
C24_ProtocolErrorsChangeNothing ==
    [][(replies = <<>> /\ replies' # <<>>) =>
         /\ Malformed(request'.pk)
              => /\ replies'[1].ret = "PROCESSED"
                 /\ replies'[1].rcode = "FORMERR"
         /\ (~Malformed(request'.pk) /\ ~request'.known)
              => /\ replies'[1].ret = "PROCESSED"
                 /\ replies'[1].rcode = "NOTAUTH"
         /\ replies'[1].rcode \in {"FORMERR", "NOTAUTH"}
              => /\ Malformed(request'.pk) \/ ~request'.known
                 /\ replies'[1].rcode = "FORMERR" <=> Malformed(request'.pk)
                 /\ replies'[1].rrs = <<>>
                 /\ StreamerUntouched(query')
                 /\ ixfr' = ixfr
                 /\ zone' = zone]_vars

\* A request with two questions for a serial the chain could serve was
\* answered with FORMERR.
C24_Witness ==
    /\ replies # <<>>
    /\ replies[1].rcode = "FORMERR"
    /\ request.pk.qdcount = 2
    /\ request.known
    /\ Servable(ixfr, request.pk.auth[1].serial, CurrentSerial)
    /\ StreamerUntouched(query)

\* A well-formed request for a zone the server does not have was answered
\* with NOTAUTH.
C24_WitnessNotAuth ==
    /\ replies # <<>>
    /\ replies[1].rcode = "NOTAUTH"
    /\ ~request.known
    /\ ~Malformed(request.pk)
    /\ ixfr # NULL
    /\ StreamerUntouched(query)

\* An authority section whose RR is no SOA, and one whose SOA is cut short,
\* were answered with FORMERR.
C24_WitnessNoSoa ==
    /\ replies # <<>>
    /\ replies[1].rcode = "FORMERR"
    /\ request.pk.qdcount = 1
    /\ request.pk.nscount = 1
    /\ request.pk.auth[1].type # TYPE_SOA

(***************************************************************************)
(* What read_from_file loads, under SpecStore and SpecFiles                *)
(***************************************************************************)
\* The RR lines of a file
RRLines(lines) == SelectSeq(lines, LAMBDA l : l.kind = "rr")

\* The serial in the text of an SOA line
LineSerial(l) == l.text[1]

\* The file holds a segment: the new SOA, the old SOA, and two sections
\* that each end with an SOA with the new serial, the second one at the
\* end of the file.
HoldsSegment(lines) ==
    LET rrs == RRLines(lines)
        ends == {i \in 3..Len(rrs) :
                    /\ rrs[i].type = TYPE_SOA
                    /\ LineSerial(rrs[i]) = LineSerial(rrs[1])}
    IN  /\ Len(rrs) >= 4
        /\ rrs[1].type = TYPE_SOA /\ rrs[1].owner = Apex
        /\ rrs[2].type = TYPE_SOA /\ rrs[2].owner = Apex
        /\ Cardinality(ends) >= 2

\* The bytes the segment of a file takes in memory
RECURSIVE LinesLen(_)
LinesLen(rrs) ==
    IF rrs = <<>> THEN 0
    ELSE name_size(Head(rrs).owner) + 10 + Head(rrs).text[2]
            + LinesLen(Tail(rrs))

MemorySize(lines) == SizeofIxfrData + LinesLen(RRLines(lines))

\* File number n cannot follow on the segments tree read from the files
\* before it: it is missing, holds no segment, does not lead to the serial
\* expected, or the number or the size of the segments would pass the
\* configured maximum.
Refused(d, n, tree, expected) ==
    \/ ~ixfr_file_exists(d, n)
    \/ ~HoldsSegment(d[n])
    \/ LineSerial(RRLines(d[n])[1]) # expected
    \/ Len(tree) >= opts.ixfr_number
    \/ /\ opts.ixfr_size # 0
       /\ SizeFrom(tree, 1) + MemorySize(d[n]) > opts.ixfr_size

\* The segment of the tree that was read from file n
OfFile(tree, n) == CHOOSE i \in 1..Len(tree) : tree[i].file_num = n

\* The tree holds the segments of the files 1..Len(tree) of d, each one
\* accepted behind the ones before it, and the next file is refused.
LoadedUpToFirstRefused(tree, d, serial) ==
    /\ \A n \in 1..Len(tree) :
          /\ \E i \in 1..Len(tree) : tree[i].file_num = n
          /\ d[n] = ixfr_write_file_header(tree[OfFile(tree, n)])
                      \o ixfr_write_file_data(tree[OfFile(tree, n)])
          /\ ~tree[OfFile(tree, n)].freed
    /\ Len(tree) <= opts.ixfr_number
    /\ opts.ixfr_size # 0 => SizeFrom(tree, 1) <= opts.ixfr_size
    /\ Refused(d, Len(tree) + 1, tree,
               IF tree = <<>> THEN serial
               ELSE tree[OfFile(tree, Len(tree))].oldserial)

\* C25 as stated: after read_from_file the chain in memory consists of
\* exactly the segments of the files 1..j, file j+1 being the first that is
\* missing, does not parse, does not continue the serial chain or would
\* pass max_count or max_bytes; no segment that was in memory before
\* survives, no segment read is discarded and no file above j+1 is loaded.
C25_LoadsUpToFirstRefused ==
    [][ReadFromFile =>
          LoadedUpToFirstRefused(IF ixfr' = NULL THEN <<>> ELSE ixfr'.data,
                                 disk, zone_get_current_serial(zone))]_vars

\* The same where the configured number of segments is not 0.
C25_LoadsIfNumberPositive ==
    [][(ReadFromFile /\ opts.ixfr_number > 0) =>
          LoadedUpToFirstRefused(IF ixfr' = NULL THEN <<>> ELSE ixfr'.data,
                                 disk, zone_get_current_serial(zone))]_vars

(***************************************************************************)
(* zone_ixfr_make_space on the chain and the segment under construction,   *)
(* under SpecStore                                                         *)
(***************************************************************************)
\* What zone_ixfr_make_space is to leave for the candidate data on the
\* chain x, m being what it left: the builder is cancelled, or the chain
\* has room for one more segment and for the bytes of the candidate; it is
\* cancelled exactly when ixfr_number is 0, or the chain is empty and the
\* candidate alone is larger than ixfr_size; with ixfr_size 0 segments are
\* removed for the count only.
MadeSpace(x, data, m) ==
    /\ \/ m.cancel
       \/ /\ Count(m.x) < opts.ixfr_number
          /\ \/ opts.ixfr_size = 0
             \/ m.x.total_size + ixfr_data_size(data) <= opts.ixfr_size
    /\ m.cancel <=>
          \/ opts.ixfr_number = 0
          \/ /\ Count(m.x) = 0
             /\ opts.ixfr_size # 0
             /\ ixfr_data_size(data) > opts.ixfr_size
    /\ (opts.ixfr_size = 0 /\ opts.ixfr_number > 0) =>
          Count(m.x) = IF Count(x) >= opts.ixfr_number
                       THEN opts.ixfr_number - 1 ELSE Count(x)

\* A builder is open on a zone that has a chain object.
CandidateOnChain == Building /\ ixfr # NULL

\* The candidates zone_ixfr_make_space is called with: the data as it is
\* when an RR or the old SOA is stored, and as it is in finish, with the
\* new SOA behind both runs.
Candidates ==
    {store.data,
     [store.data EXCEPT !.del = ixfr_put_newsoa(store.data, store.data.del),
                        !.add = ixfr_put_newsoa(store.data, store.data.add)]}

\* C26 as stated: for a candidate segment on an existing chain,
\* zone_ixfr_make_space returns with the builder cancelled, or with the
\* chain count below ixfr_number and (ixfr_size = 0 or total_size plus the
\* size of the candidate at most ixfr_size); the builder is cancelled
\* exactly when ixfr_number = 0 or the chain was emptied and the candidate
\* alone exceeds ixfr_size; with ixfr_size = 0 no segment is removed for
\* its size.
C26_MakeSpacePostcondition ==
    CandidateOnChain =>
        \A data \in Candidates, aw \in AddrWords :
            MadeSpace(ixfr, data, zone_ixfr_make_space(ixfr, data, aw))

\* The same for the calls in which every removal unlinks the node it was
\* given.
C26_PostconditionIfUnlinked ==
    CandidateOnChain =>
        \A data \in Candidates :
            MadeSpace(ixfr, data, zone_ixfr_make_space(ixfr, data, OwnKey))

\* The serial file number n has to lead to: the zone's for file 1, and the
\* serial of the old SOA of the file before it for the others.
ExpectedSerial(d, n, serial) ==
    IF n = 1 THEN serial ELSE LineSerial(RRLines(d[n - 1])[2])

\* C27: every chain loaded by read_from_file is connected and ends at the
\* zone's current serial: the segment of file 1 has the zone's serial as
\* its new serial, the segment of file k >= 2 has as its new serial the old
\* serial of the segment of file k-1; a file whose new SOA serial is not
\* the serial expected is not loaded, and no file behind it is.
C27_LoadedChainConnected ==
    [][ReadFromFile =>
          \E tree \in {IF ixfr' = NULL THEN <<>> ELSE ixfr'.data} :
             /\ \A i \in 1..Len(tree) :
                   /\ tree[i].file_num \in 1..Len(tree)
                   /\ tree[i].file_num = 1 =>
                         tree[i].newserial = zone_get_current_serial(zone)
                   /\ \A j \in 1..Len(tree) :
                         tree[i].file_num = tree[j].file_num + 1 =>
                             tree[i].newserial = tree[j].oldserial
             /\ \A n \in DOMAIN disk :
                   (/\ 1..n \subseteq DOMAIN disk
                    /\ \A m \in 1..n : HoldsSegment(disk[m])
                    /\ LineSerial(RRLines(disk[n])[1])
                         # ExpectedSerial(disk, n,
                                          zone_get_current_serial(zone)))
                   => \A i \in 1..Len(tree) : tree[i].file_num < n]_vars

\* Before any builder was started the chain holds the segments of files 1
\* and 2, connected and leading to the zone's serial.
C27_Witness ==
    /\ store.phase = "none"
    /\ ixfr # NULL
    /\ Len(ixfr.data) = 2
    /\ FilesMatch(ixfr, disk, 2)
    /\ ixfr.data[2].newserial = zone_get_current_serial(zone)
    /\ ixfr.data[1].newserial = ixfr.data[2].oldserial

\* Files 1 and 2 both hold a segment, file 2 does not lead to the old
\* serial of file 1, and the chain holds the segment of file 1 alone.
C27_WitnessRejected ==
    /\ ixfr # NULL
    /\ Len(ixfr.data) = 1
    /\ {1, 2} \subseteq DOMAIN disk
    /\ FilesMatch(ixfr, disk, 1)
    /\ HoldsSegment(disk[2])
    /\ LineSerial(RRLines(disk[2])[1]) # ixfr.data[1].oldserial
    /\ opts.ixfr_number >= 2

(***************************************************************************)
(* What write_to_file leaves, under SpecFiles and SpecStore                *)
(***************************************************************************)
\* ixfr_write_to_file is called on a chain, the files on disk being
\* without gap, and no rename and no write fails in the call.
WritesUnfailed(aw) ==
    /\ ixfr # NULL
    /\ PrefixFiles(disk)
    /\ ~RenameFails(0, aw)
    /\ WriteToFileWith(0, Written, aw)

\* The number of segments and files the call is to leave.
Target == IF Count(ixfr) < opts.ixfr_number THEN Count(ixfr)
          ELSE opts.ixfr_number

\* C28 as stated: after a write_to_file call in which no file operation
\* fails, started with files 1..m on disk, the chain holds target =
\* min(count before the call, ixfr_number) segments, the files on disk are
\* exactly 1..target, and the i-th newest segment has file number i and is
\* the content of file i.
C28_WriteLeavesChainInFiles ==
    [][\A aw \in WriteAddrWords :
          WritesUnfailed(aw) =>
              /\ Count(ixfr') = Target
              /\ Stored(ixfr', disk')]_vars

\* The same where the segments that have a file number are the oldest ones
\* of the chain, and the chain is within the configured number.
C28_WriteIfOldestHaveFiles ==
    [][\A aw \in WriteAddrWords :
          (/\ WritesUnfailed(aw)
           /\ Count(ixfr) <= opts.ixfr_number
           /\ \A i \in 1..(Len(ixfr.data) - 1) :
                 ixfr.data[i].file_num = 0 => ixfr.data[i + 1].file_num = 0)
          => /\ Count(ixfr') = Target
             /\ Stored(ixfr', disk')]_vars

(***************************************************************************)
(* The end of a stream, under SpecServe and SpecQuery                      *)
(***************************************************************************)
\* The RRs of the stream so far
Streamed == Concatenation(StreamPackets)

\* The stream stands at its final segment, the one whose new SOA opened the
\* reply, and has sent all of its added run.
FinalSegmentExhausted ==
    /\ query.ixfr_data = query.ixfr_end_data
    /\ Deref(ixfr, query.ixfr_end_data) # 0
    /\ query.ixfr_count_add
         >= RunLen(ixfr.data[Deref(ixfr, query.ixfr_end_data)].add)

\* C29 as stated: a TCP stream is marked done exactly when the added run of
\* its final segment, the one selected at the start of the stream whose new
\* SOA opened the reply, is exhausted, also when a builder commits a newer
\* segment between two packets; the last SOA of the reply carries the
\* serial of the opening SOA.
C29_DoneAtFinalSegment ==
    (TcpStream /\ ~ub) =>
        /\ query.ixfr_is_done =>
              /\ query.ixfr_data = query.ixfr_end_data
              /\ Streamed # <<>>
              /\ Streamed[Len(Streamed)].type = TYPE_SOA
              /\ Streamed[Len(Streamed)].rdata = Streamed[1].rdata
        /\ (~query.ixfr_is_done /\ Deref(ixfr, query.ixfr_end_data) # 0)
              => ~FinalSegmentExhausted

\* A stream of several packets over several segments is done at its final
\* segment.
C29_DoneInFixedChain ==
    /\ TcpStream
    /\ query.ixfr_is_done
    /\ Len(StreamPackets) >= 2
    /\ FinalSegmentExhausted
    /\ Deref(ixfr, query.ixfr_end_data) >= 2
    /\ Streamed[Len(Streamed)].rdata = Streamed[1].rdata

\* The sum of the answer counts of the packets rs
RECURSIVE SumOfAncount(_)
SumOfAncount(rs) ==
    IF rs = <<>> THEN 0 ELSE Head(rs).ancount + SumOfAncount(Tail(rs))

\* C30: in every packet of a TCP stream ANCOUNT is the number of RRs
\* written into the packet, NSCOUNT and ARCOUNT are 0 and AA is set, so the
\* ANCOUNTs of the packets add up to the number of RRs of the reply; the
\* first packet keeps the question, every later packet has QDCOUNT 0 and
\* its RRs start right behind the header.
C30_CountsOfStreamPackets ==
    TcpStream =>
        /\ \A k \in 1..Len(StreamPackets) :
              /\ StreamPackets[k] = replies[k]
              /\ replies[k].ancount = Len(replies[k].rrs)
              /\ replies[k].nscount = 0
              /\ replies[k].arcount = 0
              /\ replies[k].aa
              /\ replies[k].qdcount = IF k = 1 THEN 1 ELSE 0
              /\ replies[k].position
                   = (IF k = 1 THEN AnswerStart ELSE QHEADERSZ)
                       + RunLen(replies[k].rrs)
        /\ SumOfAncount(StreamPackets) = Len(Streamed)

\* A TCP stream of three packets is done, each packet with RRs.
C30_Witness ==
    /\ TcpStream
    /\ query.ixfr_is_done
    /\ Len(StreamPackets) >= 3
    /\ \A k \in 1..Len(StreamPackets) : StreamPackets[k].ancount >= 1
    /\ StreamPackets[2].qdcount = 0
    /\ SumOfAncount(StreamPackets) = Len(ResponseFrom(ixfr.data,
                                         SegmentFrom(ixfr.data, AskedSerial)))

(***************************************************************************)
(* Queries on a zone without SOA, under SpecQuery                          *)
(***************************************************************************)
\* The reply is SERVFAIL, made by query_ixfr itself.
ServfailReply ==
    /\ replies = <<replies[1]>>
    /\ replies[1].ret = "PROCESSED"
    /\ replies[1].rcode = "SERVFAIL"
    /\ replies[1].rrs = <<>>
    /\ NoStreamerState

\* C31 as stated: every IXFR query on a zone that has no SOA is answered
\* with SERVFAIL, whatever the serial of the query, and is never handed to
\* the AXFR handler or to the chain lookup.
C31_ServfailWithoutSoa == (Served /\ zone.rr_count = 0) => ServfailReply

\* The same for the serials that are not older than 0 under RFC 1982.
C31_ServfailIfNotOlderThanZero ==
    (Served /\ zone.rr_count = 0 /\ ~Older(AskedSerial, S(0)))
        => ServfailReply

\* A query on a zone without SOA was handed to the AXFR handler.
C31_AxfrWithoutSoa ==
    /\ Served
    /\ zone.rr_count = 0
    /\ replies[1].ret = "AXFR"

(***************************************************************************)
(* C32: delrr and addrr with an SOA                                        *)
(***************************************************************************)
\* The chain is at its number budget or holds more than its size budget
\* allows beside the segment under construction: a call of
\* zone_ixfr_make_space would evict or cancel.
SpaceWanted ==
    /\ ixfr # NULL
    /\ Count(ixfr) > 0
    /\ \/ opts.ixfr_number = 0
       \/ Count(ixfr) >= opts.ixfr_number
       \/ /\ opts.ixfr_size # 0
          /\ ixfr.total_size + ixfr_data_size(store.data) > opts.ixfr_size

\* C32: add_deleted and add_added called with an RR of type SOA are
\* no-ops: the deleted and added runs, the builder's cancelled flag and the
\* zone's chain are unchanged (no budget check, no eviction), whichever
\* address words are met and whether or not the rdata would parse.
C32_SoaIsNoOp ==
    [][PutSoaRR => UNCHANGED <<store, ixfr, ub>>]_vars

\* a builder not cancelled that is given an SOA beside a chain from which
\* an RR of another type would have evicted a segment
C32_Witness ==
    /\ ~ub
    /\ Building
    /\ SpaceWanted

(***************************************************************************)
(* C33: the RR byte walker                                                 *)
(***************************************************************************)
RECURSIVE IsOwnerName(_)
\* s is an uncompressed name: labels of 1..63 bytes, each behind its length
\* byte, and the zero byte of the root at the end, nowhere else
IsOwnerName(s) ==
    /\ s # <<>>
    /\ IF s[1] = 0 THEN Len(s) = 1
       ELSE /\ s[1] < 64
            /\ Len(s) > s[1] + 1
            /\ IsOwnerName(SubSeq(s, s[1] + 2, Len(s)))

\* The r bytes of data from index i are an RR: a name of k bytes, the ten
\* bytes of type, class, ttl and rdlen, and rdlen bytes, all within data
IsRRAt(data, i, r) ==
    /\ r > 0
    /\ i + r <= Len(data)
    /\ \E k \in 1..(r - 10) :
          /\ IsOwnerName(SubSeq(data, i + 1, i + k))
          /\ r = k + 10 + data[i + k + 9] * 256 + data[i + k + 10]

\* a label length byte of the name at index i has one of the top two bits
\* set: the bytes in front of it from i on are labels
RECURSIVE BadLabelFrom(_, _)
BadLabelFrom(data, i) ==
    /\ i < Len(data)
    /\ data[i + 1] # 0
    /\ \/ data[i + 1] >= 64
       \/ BadLabelFrom(data, i + 1 + data[i + 1])

\* C33: for every buffer of length n and every start offset i the walker
\* either returns 0 or returns r > 0 with i + r <= n, r being the length
\* of the owner name plus 10 plus rdlen; it returns 0 whenever i >= n, a
\* label length byte has one of the top two bits set, or no RR that starts
\* at i ends within n; and it reads no byte at an index >= n.
C33_WalkerWithinBuffer ==
    (walk # NoWalk /\ walk.called) =>
        LET n == Len(walk.data)
            i == walk.current
            r == walk.ret
        IN  /\ r = 0 \/ IsRRAt(walk.data, i, r)
            /\ i >= n => r = 0
            /\ BadLabelFrom(walk.data, i) => r = 0
            /\ (~\E len \in 1..(n - i) : IsRRAt(walk.data, i, len)) => r = 0
            /\ walk.last < n

\* the walker has returned the length of an RR that starts inside the
\* buffer, has a label in its name and two bytes of rdata
C33_Witness ==
    /\ walk # NoWalk
    /\ walk.called
    /\ walk.current > 0
    /\ walk.ret > 13
    /\ walk.ret = Len(walk.data) - walk.current
    /\ walk.data[walk.current + 1] > 0

C34_DoneOrFreedSegment == TcpStream ~> (query.ixfr_is_done \/ ub)

\* every packet of a stream that is not done holds an RR
C34_PacketHoldsRR ==
    [][(Streaming /\ NextPacket) =>
          replies'[Len(replies')].ancount > 0]_vars

\* a stream whose segment was freed before its next packet
C34_StreamOnFreedSegment ==
    /\ Streaming
    /\ ~ub
    /\ Deref(ixfr, query.ixfr_data) = 0

(***************************************************************************)
(* C35: the packet that ends the stream, and the calls behind it           *)
(***************************************************************************)
\* The replies of a stream that is done: packets returned as in-stream, the
\* last of them the one that set the flag, and behind them calls that
\* returned processed and wrote nothing
DoneHistory ==
    \E k \in 1..Len(replies) :
       /\ \A j \in 1..k : replies[j].ret = "IN_IXFR"
       /\ \A j \in (k + 1)..Len(replies) :
             /\ replies[j].ret = "PROCESSED"
             /\ replies[j].rrs = <<>>
             /\ replies[j].ancount = 0

\* One more call of query_ixfr on the query, whatever the packet and the
\* zone hold: processed, no RR, the query as it was
LaterCallReturnsAtOnce ==
    \A ask \in Asks :
       LET a == query_ixfr(query, ixfr, zone, ask.pk, ask.known,
                           ask.encode_ok)
       IN  /\ a.reply.ret = "PROCESSED"
           /\ a.reply.rrs = <<>>
           /\ a.q = query

\* C35: the packet on which the stream becomes done (the last TCP packet,
\* or the truncated UDP reply) is returned as in-stream; every later call
\* of query_ixfr on that query returns processed immediately, writes no RR
\* and changes no streamer offset and no signing flag.
C35_DoneThenProcessed ==
    (replies # <<>> /\ query.ixfr_is_done) =>
        DoneHistory /\ LaterCallReturnsAtOnce

\* a TCP stream of several packets that is done and was called once more
C35_Witness ==
    /\ TcpStream
    /\ query.ixfr_is_done
    /\ Len(replies) >= 3
    /\ replies[Len(replies)].ret = "PROCESSED"
    /\ replies[Len(replies) - 1].ret = "IN_IXFR"

\* a truncated UDP reply: done, and returned as in-stream
C35_WitnessUdp ==
    /\ replies # <<>>
    /\ ~query.tcp
    /\ query.ixfr_is_done
    /\ replies[1].tc

(***************************************************************************)
(* C36: packets flagged for signing                                        *)
(***************************************************************************)
\* C36: a response packet is flagged for signing (tsig_sign_it = 1 when
\* query_ixfr returns) only if the query's TSIG status is OK; for a query
\* without valid TSIG no packet of the stream, the last one included, is
\* flagged.
C36_FlaggedOnlyWithTsig ==
    \A k \in 1..Len(replies) :
       (replies[k].ret = "IN_IXFR" /\ replies[k].sign_it) => query.tsig_ok

\* without valid TSIG no packet is flagged but the one that ends a stream
\* at the end of the tree
C36_FlaggedWithTsigOrAtEnd ==
    \A k \in 1..Len(replies) :
       (replies[k].ret = "IN_IXFR" /\ replies[k].sign_it) =>
           \/ query.tsig_ok
           \/ /\ query.ixfr_is_done
              /\ ~replies[k].tc
              /\ \A j \in (k + 1)..Len(replies) : replies[j].ret = "PROCESSED"

\* a stream of several packets without TSIG whose last packet is flagged
C36_LastFlaggedWithoutTsig ==
    /\ TcpStream
    /\ ~query.tsig_ok
    /\ Len(replies) >= 2
    /\ replies[2].ret = "IN_IXFR"
    /\ ~replies[1].sign_it
    /\ replies[2].sign_it

(***************************************************************************)
(* C37: file numbers of the segments in memory                             *)
(***************************************************************************)
\* no two segments of the chain have the same file number but 0
DistinctFileNumbers ==
    \A i, j \in 1..Len(ixfr.data) :
       (i # j /\ ixfr.data[i].file_num # 0) =>
           ixfr.data[i].file_num # ixfr.data[j].file_num

\* a segment with file number k > 0 is what file k holds
FileNumbersHold ==
    \A i \in 1..Len(ixfr.data) :
       ixfr.data[i].file_num # 0 =>
           /\ ixfr_file_exists(disk, ixfr.data[i].file_num)
           /\ disk[ixfr.data[i].file_num]
                 = ixfr_write_file_header(ixfr.data[i])
                     \o ixfr_write_file_data(ixfr.data[i])

\* C37: in every reachable state, also after failed writes or renames in
\* write_to_file and after evictions, no two in-memory segments of the zone
\* have the same non-zero file_index, and a segment with file_index k > 0
\* is the content of file k on disk.
C37_FileNumbersMatchDisk ==
    (~ub /\ ixfr # NULL) => (DistinctFileNumbers /\ FileNumbersHold)

\* two segments with one file number
C37_SharedFileNumber == ~ub /\ ixfr # NULL /\ ~DistinctFileNumbers

\* a segment whose file holds another segment or is not there
C37_FileOfAnotherSegment == ~ub /\ ixfr # NULL /\ ~FileNumbersHold

(***************************************************************************)
(* C38: write_to_file with store-ixfr off                                  *)
(***************************************************************************)
\* The files of d but the contiguous run that starts at file 1
WithoutRunFromOne(d, e) ==
    \E m \in 0..MaxTransfers :
       /\ 1..m \subseteq DOMAIN d
       /\ (m + 1) \notin DOMAIN d
       /\ DOMAIN e = DOMAIN d \ (1..m)
       /\ \A f \in DOMAIN e : e[f] = d[f]

\* C38: when IXFR storing is disabled for the zone (store_ixfr false),
\* write_to_file uses target 0: it removes every in-memory segment of the
\* chain and deletes the contiguous run of files starting at file 1,
\* writing nothing, whatever address word a removal meets.
C38_DisabledRemovesAll ==
    [][\A aw \in WriteAddrWords :
          (~opts.store_ixfr /\ WriteToFileWith(0, Written, aw)) =>
              /\ ~ub'
              /\ ixfr' = NULL \/ Count(ixfr') = 0
              /\ WithoutRunFromOne(disk, disk')]_vars

\* the same where every removal unlinks the node it was given
C38_DisabledRemovesAllIfUnlinked ==
    [][(~opts.store_ixfr /\ WriteToFileWith(0, Written, OwnKey)) =>
          /\ ~ub'
          /\ ixfr' = NULL \/ Count(ixfr') = 0
          /\ WithoutRunFromOne(disk, disk')]_vars

\* store-ixfr is off, the chain holds segments and their files are there
C38_Witness ==
    /\ ~ub
    /\ ~opts.store_ixfr
    /\ store.phase # "open"
    /\ ixfr # NULL
    /\ Count(ixfr) >= 2
    /\ 1 \in DOMAIN disk

====
